---- MODULE Spec2Model ----
(***************************************************************************)
(* ART-AI backend: the access-level state machine (env.py), the attack     *)
(* executor (attack_engine.py), the Q-learning policy (ai_agent.py), the   *)
(* exploit librarian (ai/knowledge.py), the path store (storage.py) and    *)
(* the request handlers that drive them (main.py).                         *)
(*                                                                         *)
(* Floats are modelled in fixed point: probabilities and confidences in    *)
(* thousandths, Q-values and scores in thousandths, rewards (which are     *)
(* whole numbers in the code) as integers.                                 *)
(***************************************************************************)
EXTENDS Integers, Sequences, FiniteSets, TLC

VARIABLES
    environment,      \* main.py:38  the shared EnvironmentState
    ai_agent,         \* main.py:40  the shared QLearningAgent
    storage,          \* main.py:41  the AttackPathStorage tables
    exploit_librarian,\* main.py:46  the ExploitLibrarian (its hint_cache)
    pc,               \* which handler is running: "idle" or a position in run_simulation
    sim,              \* locals of run_simulation
    result,           \* the AttackResult of the most recent execute_attack of the running handler
    reward,           \* the reward computed for that result (None when none was computed)
    response,         \* what the most recent handler returned to its caller
    call,             \* inputs of the function under test in the pure-function specifications
    budget            \* attack steps the model may still explore (not program state)

vars == <<environment, ai_agent, storage, exploit_librarian, pc, sim, result, reward,
          response, call, budget>>

(***************************************************************************)
(* Bounds of the model.                                                    *)
(***************************************************************************)
\* requests are explored while their cost fits the budget: a request costs one
\* step, and a simulate request one more for each iteration it asks for
MaxSteps == 3

None == "None"

Min(a, b) == IF a <= b THEN a ELSE b
Max(a, b) == IF a >= b THEN a ELSE b

(***************************************************************************)
(* env.py                                                                  *)
(***************************************************************************)
AccessLevel == {"none", "public", "internal", "admin"}

\* the code points of the first characters of the values "none", "public",
\* "internal", "admin": the values differ there, so str comparison is decided there
FirstCharCode == [none |-> 110, public |-> 112, internal |-> 105, admin |-> 97]

order_internal_above_admin == [none |-> 0, public |-> 1, internal |-> 3, admin |-> 2]

\* AccessLevel.__lt__ : the privilege order
order == [none |-> 0, public |-> 1, internal |-> 2, admin |-> 3]

AccessLevel_lt(a, b) == order[a] < order[b]

\* AccessLevel defines __lt__ and __le__ only: `a >= b` is str.__ge__ on the values
AccessLevel_ge(a, b) == a = b \/ FirstCharCode[a] > FirstCharCode[b]

\* EnvironmentState() : the dataclass defaults, also what reset() restores
InitialEnvironment ==
    [ current_access_level       |-> "none",
      visited_components         |-> {},
      blocked_ips                |-> {},
      discovered_services        |-> <<>>,
      discovered_vulnerabilities |-> <<>>,
      iteration_count            |-> 0,
      strategic_hint             |-> None,
      hint_available             |-> 0,
      hint_service               |-> None,
      hint_confidence            |-> 0,
      hint_followed              |-> FALSE,
      hint_success               |-> FALSE ]

check_hint_match_once(state, action) ==
    IF state.strategic_hint = None \/ state.hint_followed THEN FALSE
    ELSE action = state.strategic_hint

check_hint_match(state, action) ==
    IF state.strategic_hint = None THEN FALSE ELSE action = state.strategic_hint

mark_hint_followed_only(state, success) == [state EXCEPT !.hint_followed = TRUE]

mark_hint_followed_sticky(state, success) ==
    [state EXCEPT !.hint_followed = TRUE, !.hint_success = @ \/ success]

mark_hint_followed(state, success) ==
    [state EXCEPT !.hint_followed = TRUE, !.hint_success = success]

escalate_access(state, new_level) ==
    IF AccessLevel_lt(state.current_access_level, new_level)
    THEN [state EXCEPT !.current_access_level = new_level]
    ELSE state

add_visited_component_alone(state, component) ==
    [state EXCEPT !.visited_components = {component}]

add_visited_component(state, component) ==
    [state EXCEPT !.visited_components = @ \cup {component}]

is_blocked_never(state, ip) == FALSE

is_blocked(state, ip) == ip \in state.blocked_ips

block_ip_dropping_level(state, ip) ==
    [state EXCEPT !.blocked_ips = @ \cup {ip}, !.current_access_level = "none"]

block_ip(state, ip) == [state EXCEPT !.blocked_ips = @ \cup {ip}]

(***************************************************************************)
(* attack_engine.py                                                        *)
(***************************************************************************)
AttackAction ==
    { "public_access_attempt", "token_reuse_attempt", "privilege_escalation_attempt",
      "lateral_movement_attempt", "sql_injection_attempt", "xss_attempt",
      "path_traversal_attempt", "command_injection_attempt",
      "authentication_bypass_attempt", "session_hijack_attempt" }

\* base success probabilities, in thousandths
SUCCESS_PROBABILITIES ==
    [ none     |-> [ public_access_attempt |-> 300,
                     authentication_bypass_attempt |-> 100,
                     sql_injection_attempt |-> 150 ],
      public   |-> [ token_reuse_attempt |-> 250,
                     session_hijack_attempt |-> 200,
                     xss_attempt |-> 300,
                     path_traversal_attempt |-> 200 ],
      internal |-> [ privilege_escalation_attempt |-> 200,
                     lateral_movement_attempt |-> 300,
                     command_injection_attempt |-> 150 ],
      admin    |-> [ lateral_movement_attempt |-> 800 ] ]

ACCESS_ESCALATIONS ==
    [ public_access_attempt         |-> "public",
      authentication_bypass_attempt |-> "public",
      token_reuse_attempt           |-> "internal",
      session_hijack_attempt        |-> "internal",
      privilege_escalation_attempt  |-> "admin",
      lateral_movement_attempt      |-> "internal" ]

VULNERABILITIES ==
    [ sql_injection_attempt     |-> "SQL Injection",
      xss_attempt               |-> "Cross-Site Scripting (XSS)",
      path_traversal_attempt    |-> "Path Traversal",
      command_injection_attempt |-> "Command Injection" ]

\* AttackEngine.__init__ : the detection probability, in thousandths
block_probability == 50

\* the values random.random() is drawn from, in thousandths: both ends of [0, 1)
Samples == {0, 999}

\* the values random.randint(1, 10) is drawn from: both ends of the range
ComponentDraws == {1, 10}

\* f"service_{random.randint(1, 10)}"
ComponentName ==
    << "service_1", "service_2", "service_3", "service_4", "service_5",
       "service_6", "service_7", "service_8", "service_9", "service_10" >>

\* the one identifier the engine checks and blocks
ATTACKER_IP == "attacker_ip"

_is_action_applicable(action, current_level) ==
    \/ action \in DOMAIN SUCCESS_PROBABILITIES[current_level]
    \/ action \in DOMAIN ACCESS_ESCALATIONS

_get_success_probability(action, current_level) ==
    LET level_probs == SUCCESS_PROBABILITIES[current_level]
        base_prob   == IF action \in DOMAIN level_probs THEN level_probs[action] ELSE 100
    IN  Min((base_prob * 11) \div 10, 950)

_calculate_new_access_level(action, current_level) ==
    IF action \in DOMAIN ACCESS_ESCALATIONS
       /\ AccessLevel_lt(current_level, ACCESS_ESCALATIONS[action])
    THEN ACCESS_ESCALATIONS[action]
    ELSE current_level

AttackResult(success, level, message, component, vulnerability, blocked) ==
    [ success              |-> success,
      new_access_level     |-> level,
      message              |-> message,
      discovered_component |-> component,
      vulnerability_found  |-> vulnerability,
      blocked              |-> blocked ]

NotApplicableMessage(action, level) == <<"Action", action, "not applicable at", level, "level">>

inapplicable_result_blocking(action, state) ==
    [ result |-> AttackResult(FALSE, state.current_access_level,
                              NotApplicableMessage(action, state.current_access_level),
                              None, None, TRUE),
      state  |-> block_ip(state, ATTACKER_IP) ]

\* attack_engine.py:113-119 : the inapplicable action is an ordinary failure
inapplicable_result(action, state) ==
    [ result |-> AttackResult(FALSE, state.current_access_level,
                              NotApplicableMessage(action, state.current_access_level),
                              None, None, FALSE),
      state  |-> state ]

blocked_result_forgetting(state) ==
    [ result |-> AttackResult(FALSE, state.current_access_level,
                              <<"IP address is blocked">>, None, None, TRUE),
      state  |-> [state EXCEPT !.visited_components = {}] ]

\* attack_engine.py:105-111 : the answer to a blocked attacker; the state is not
\* touched
blocked_result(state) ==
    [ result |-> AttackResult(FALSE, state.current_access_level,
                              <<"IP address is blocked">>, None, None, TRUE),
      state  |-> state ]

\* execute_attack with its three random draws: u_detect and u_success are the two
\* random.random() samples, n the random.randint for the component name.
\* Yields the AttackResult and the state the call leaves behind.
execute_attack(action, state, u_detect, u_success, n) ==
    IF is_blocked(state, ATTACKER_IP)
    THEN blocked_result(state)
    ELSE IF ~ _is_action_applicable(action, state.current_access_level)
    THEN inapplicable_result(action, state)
    ELSE IF u_detect < block_probability
    THEN LET s1 == block_ip(state, ATTACKER_IP)
         IN  [ result |-> AttackResult(FALSE, s1.current_access_level,
                                       <<"Attack detected and blocked by IDS">>,
                                       None, None, TRUE),
               state  |-> s1 ]
    ELSE IF u_success < _get_success_probability(action, state.current_access_level)
    THEN LET new_level     == _calculate_new_access_level(action, state.current_access_level)
             s1            == escalate_access(state, new_level)
             component     == ComponentName[n]
             s2            == add_visited_component(s1, component)
             vulnerability == IF action \in DOMAIN VULNERABILITIES
                              THEN VULNERABILITIES[action] ELSE None
             s3            == IF vulnerability # None
                              THEN [s2 EXCEPT !.discovered_vulnerabilities =
                                                  Append(@, vulnerability)]
                              ELSE s2
         IN  [ result |-> AttackResult(TRUE, s3.current_access_level,
                                       <<"Successfully executed", action>>,
                                       component, vulnerability, FALSE),
               state  |-> s3 ]
    ELSE [ result |-> AttackResult(FALSE, state.current_access_level,
                                   <<"Failed to execute", action>>, None, None, FALSE),
           state  |-> state ]

\* the two comparisons of get_available_actions are `current_level >= AccessLevel.X`
level_at_least(current_level, threshold) == AccessLevel_ge(current_level, threshold)

get_available_actions(current_level) ==
    LET base_actions == {"public_access_attempt", "sql_injection_attempt"}
        public_part  == IF level_at_least(current_level, "public")
                        THEN {"token_reuse_attempt", "xss_attempt", "path_traversal_attempt"}
                        ELSE {}
        internal_part == IF level_at_least(current_level, "internal")
                         THEN {"privilege_escalation_attempt", "lateral_movement_attempt",
                               "command_injection_attempt"}
                         ELSE {}
    IN  public_part \cup internal_part \cup base_actions

(***************************************************************************)
(* ai/knowledge.py                                                         *)
(***************************************************************************)
\* str.lower() on the letters A-Z; every other character is left as it is
UpperToLower ==
    [ A |-> "a", B |-> "b", C |-> "c", D |-> "d", E |-> "e", F |-> "f", G |-> "g",
      H |-> "h", I |-> "i", J |-> "j", K |-> "k", L |-> "l", M |-> "m", N |-> "n",
      O |-> "o", P |-> "p", Q |-> "q", R |-> "r", S |-> "s", T |-> "t", U |-> "u",
      V |-> "v", W |-> "w", X |-> "x", Y |-> "y", Z |-> "z" ]

\* the characters of every string the lookup compares
Spelling ==
    [ HTTP          |-> <<"H", "T", "T", "P">>,
      Redis         |-> <<"R", "e", "d", "i", "s">>,
      SMTP          |-> <<"S", "M", "T", "P">>,
      Apache        |-> <<"A", "p", "a", "c", "h", "e">>,
      PHP           |-> <<"P", "H", "P">>,
      apache        |-> <<"a", "p", "a", "c", "h", "e">>,
      mysql         |-> <<"m", "y", "s", "q", "l">>,
      postgresql    |-> <<"p", "o", "s", "t", "g", "r", "e", "s", "q", "l">>,
      nginx         |-> <<"n", "g", "i", "n", "x">>,
      php           |-> <<"p", "h", "p">>,
      redis         |-> <<"r", "e", "d", "i", "s">>,
      elasticsearch |-> <<"e", "l", "a", "s", "t", "i", "c", "s", "e", "a", "r", "c", "h">>,
      ssh           |-> <<"s", "s", "h">>,
      ftp           |-> <<"f", "t", "p">>,
      FTP           |-> <<"F", "T", "P">>,
      http          |-> <<"h", "t", "t", "p">>,
      https         |-> <<"h", "t", "t", "p", "s">>,
      web           |-> <<"w", "e", "b">>,
      www           |-> <<"w", "w", "w">> ]

lower(chars) ==
    [i \in DOMAIN chars |->
        IF chars[i] \in DOMAIN UpperToLower THEN UpperToLower[chars[i]] ELSE chars[i]]

\* Python's `needle in hay` on strings
str_in(needle, hay) ==
    \E i \in 0..(Len(hay) - Len(needle)) :
        \A j \in 1..Len(needle) : hay[i + j] = needle[j]

\* the version strings of the model
Versions == {"2.4.49", "2.4.50", "2.4.41", "unknown", "Apache/2.4.41", "vsftpd 3.0.3"}

\* re.search(pattern, version) for the version strings of the model: the versions
\* each version_pattern of the mock database finds a match in
VERSION_MATCHES ==
    { <<"2\\.4\\.(49|50)", {"2.4.49", "2.4.50"}>>,
      <<"2\\.4\\.50", {"2.4.50"}>>,
      <<"5\\.(1|5|6|7)", {}>>,
      <<"5\\.[0-5]", {}>>,
      <<"9\\.3|10\\.[0-1]|11\\.[0-1]", {}>>,
      <<"8\\.[0-2]", {}>>,
      <<"1\\.[0-3]\\.[0-9]", {}>>,
      <<"7\\.[0-3]|8\\.[0-1]", {}>>,
      <<"5\\.[3-4]", {}>>,
      <<"5\\.[0-9]|6\\.[0-2]|7\\.[0-1]", {}>>,
      <<"1\\.[0-1]\\.[0-9]", {}>>,
      <<"7\\.[0-7]", {}>>,
      <<"1\\.3\\.[0-5]", {}>>,
      <<".*", {"2.4.49", "2.4.50", "2.4.41", "unknown", "Apache/2.4.41", "vsftpd 3.0.3"}>> }

re_search(pattern, version) ==
    \E row \in VERSION_MATCHES : row[1] = pattern /\ version \in row[2]

\* _load_mock_exploit_db : the entries in the dict's order; confidence in thousandths
mock_exploit_db ==
    <<
      [ service |-> "apache",
        exploits |-> <<
           [ exploit_id |-> "50437", cve |-> "CVE-2021-41773", action |-> "path_traversal_attempt", confidence |-> 950,
             version_pattern |-> "2\\.4\\.(49|50)" ],
           [ exploit_id |-> "50438", cve |-> "CVE-2021-42013", action |-> "path_traversal_attempt", confidence |-> 950,
             version_pattern |-> "2\\.4\\.50" ] >> ],
      [ service |-> "mysql",
        exploits |-> <<
           [ exploit_id |-> "23081", cve |-> "CVE-2012-2122", action |-> "authentication_bypass_attempt", confidence |-> 850,
             version_pattern |-> "5\\.(1|5|6|7)" ],
           [ exploit_id |-> "17491", cve |-> "CVE-2010-1850", action |-> "sql_injection_attempt", confidence |-> 800,
             version_pattern |-> "5\\.[0-5]" ] >> ],
      [ service |-> "postgresql",
        exploits |-> <<
           [ exploit_id |-> "45517", cve |-> "CVE-2019-9193", action |-> "command_injection_attempt", confidence |-> 900,
             version_pattern |-> "9\\.3|10\\.[0-1]|11\\.[0-1]" ],
           [ exploit_id |-> "28545", cve |-> "CVE-2007-6600", action |-> "sql_injection_attempt", confidence |-> 750,
             version_pattern |-> "8\\.[0-2]" ] >> ],
      [ service |-> "nginx",
        exploits |-> <<
           [ exploit_id |-> "37977", cve |-> "CVE-2013-2028", action |-> "privilege_escalation_attempt", confidence |-> 700,
             version_pattern |-> "1\\.[0-3]\\.[0-9]" ] >> ],
      [ service |-> "php",
        exploits |-> <<
           [ exploit_id |-> "49933", cve |-> "CVE-2021-21708", action |-> "deserialization_attempt", confidence |-> 850,
             version_pattern |-> "7\\.[0-3]|8\\.[0-1]" ],
           [ exploit_id |-> "31192", cve |-> "CVE-2012-1823", action |-> "command_injection_attempt", confidence |-> 800,
             version_pattern |-> "5\\.[3-4]" ] >> ],
      [ service |-> "redis",
        exploits |-> <<
           [ exploit_id |-> "47195", cve |-> "CVE-2022-0543", action |-> "command_injection_attempt", confidence |-> 900,
             version_pattern |-> "5\\.[0-9]|6\\.[0-2]|7\\.[0-1]" ] >> ],
      [ service |-> "elasticsearch",
        exploits |-> <<
           [ exploit_id |-> "36337", cve |-> "CVE-2014-3120", action |-> "command_injection_attempt", confidence |-> 950,
             version_pattern |-> "1\\.[0-1]\\.[0-9]" ] >> ],
      [ service |-> "ssh",
        exploits |-> <<
           [ exploit_id |-> "45210", cve |-> "CVE-2018-15473", action |-> "authentication_bypass_attempt", confidence |-> 600,
             version_pattern |-> "7\\.[0-7]" ] >> ],
      [ service |-> "ftp",
        exploits |-> <<
           [ exploit_id |-> "17491", cve |-> "CVE-2015-3306", action |-> "command_injection_attempt", confidence |-> 750,
             version_pattern |-> "1\\.3\\.[0-5]" ] >> ],
      [ service |-> "http",
        exploits |-> <<
           [ exploit_id |-> "generic_001", cve |-> None, action |-> "xss_attempt", confidence |-> 500,
             version_pattern |-> ".*" ],
           [ exploit_id |-> "generic_002", cve |-> None, action |-> "sql_injection_attempt", confidence |-> 500,
             version_pattern |-> ".*" ] >> ] >>

StrategicHint(exploit, service_name) ==
    [ action       |-> exploit.action,
      service_name |-> service_name,
      exploit_id   |-> exploit.exploit_id,
      confidence   |-> exploit.confidence,
      cve_id       |-> exploit.cve ]

\* the hints one catalog entry contributes (knowledge.py:355-371)
entry_hints(exploits, service_name, version) ==
    LET Keep(exploit) == version = None \/ re_search(exploit.version_pattern, version)
        kept == SelectSeq(exploits, Keep)
    IN  [i \in DOMAIN kept |-> StrategicHint(kept[i], service_name)]

RECURSIVE matching_hints(_, _, _)
\* the loop over mock_exploit_db.items() from entry k on (knowledge.py:353-371)
matching_hints(k, service_name, version) ==
    IF k > Len(mock_exploit_db) THEN <<>>
    ELSE LET db_service    == mock_exploit_db[k].service
             service_lower == lower(Spelling[service_name])
             here == IF \/ str_in(Spelling[db_service], service_lower)
                        \/ str_in(service_lower, Spelling[db_service])
                     THEN entry_hints(mock_exploit_db[k].exploits, service_name, version)
                     ELSE <<>>
         IN  here \o matching_hints(k + 1, service_name, version)

_query_mock_db(service_name, version) ==
    LET hints         == matching_hints(1, service_name, version)
        service_lower == lower(Spelling[service_name])
        generic       == mock_exploit_db[Len(mock_exploit_db)].exploits
    IN  IF hints = <<>>
           /\ \E web \in {"http", "https", "web", "www"} : str_in(Spelling[web], service_lower)
        THEN [i \in DOMAIN generic |-> StrategicHint(generic[i], service_name)]
        ELSE hints

\* _query_mock_db reads nothing but its arguments and the catalog: its answers
\* for the service names and versions of the model, computed once
ServiceNames == {"HTTP", "Redis", "SMTP", "Apache", "PHP", "FTP"}

mock_db_answers ==
    [q \in ServiceNames \X (Versions \cup {None}) |-> _query_mock_db(q[1], q[2])]

\* ExploitLibrarian(demo_mode=True) (main.py:46): searchsploit is never consulted
InitialLibrarian ==
    [ demo_mode |-> TRUE, searchsploit_available |-> FALSE, hint_cache |-> <<>> ]

\* f"{service_name}:{service_version or 'unknown'}"
cache_key(service_name, service_version) ==
    <<service_name, IF service_version = None THEN "unknown" ELSE service_version>>

\* what subprocess.run(["searchsploit", "-j", query], timeout=5) can do: return
\* exit status 0 with JSON holding one exploit or none, run into the timeout, find
\* no such program, return a non-zero status, return text that is no JSON, or
\* fail with another OSError (the file exists and cannot be executed)
ToolOutcomes ==
    {"results", "no_results", "timeout", "missing", "nonzero_exit", "unparsable", "os_error"}

\* _parse_exploit_result for the one exploit of the "results" output, titled
\* "Remote Code Execution": the action inferred from the title, confidence 0.80
tool_hint(service_name) ==
    [ action       |-> "command_injection_attempt",
      service_name |-> service_name,
      exploit_id   |-> "EDB-1",
      confidence   |-> 800,
      cve_id       |-> None ]

\* _query_searchsploit : the hints it returns, or that it raises
_query_searchsploit(service_name, version, tool) ==
    IF tool = "results" THEN [ raised |-> FALSE, hints |-> <<tool_hint(service_name)>> ]
    ELSE IF tool \in {"no_results", "nonzero_exit", "unparsable"}
    THEN [ raised |-> FALSE, hints |-> <<>> ]
    ELSE IF tool \in {"timeout", "missing"}
    THEN [ raised |-> FALSE, hints |-> mock_db_answers[<<service_name, version>>] ]
    ELSE [ raised |-> TRUE, hints |-> <<>> ]

cache_put_nonempty(hint_cache, key, hints) ==
    IF hints = <<>> THEN hint_cache ELSE (key :> hints) @@ hint_cache

\* knowledge.py:261 : self.hint_cache[cache_key] = hints
cache_put(hint_cache, key, hints) == (key :> hints) @@ hint_cache

\* knowledge.py:253-258 : the underlying query, searchsploit or the mock catalog
query_hints(librarian, service_name, service_version, tool) ==
    IF librarian.searchsploit_available /\ ~librarian.demo_mode
    THEN _query_searchsploit(service_name, service_version, tool)
    ELSE [ raised |-> FALSE, hints |-> mock_db_answers[<<service_name, service_version>>] ]

\* knowledge.py:261-262 : what the query returned is cached and returned; an
\* exception leaves through get_strategic_hints before the cache is written
store_hints(librarian, key, got) ==
    IF got.raised
    THEN [ hints |-> <<>>, librarian |-> librarian, raised |-> TRUE, queried |-> TRUE ]
    ELSE [ hints     |-> got.hints,
           librarian |-> [librarian EXCEPT !.hint_cache = cache_put(@, key, got.hints)],
           raised    |-> FALSE,
           queried   |-> TRUE ]

\* get_strategic_hints when the external tool, if it is run, ends as `tool`: the
\* hints returned, the librarian the call leaves behind, whether the call raised
\* and whether it ran the underlying query
get_strategic_hints_given(librarian, service_name, service_version, tool) ==
    IF cache_key(service_name, service_version) \in DOMAIN librarian.hint_cache
    THEN [ hints     |-> librarian.hint_cache[cache_key(service_name, service_version)],
           librarian |-> librarian,
           raised    |-> FALSE,
           queried   |-> FALSE ]
    ELSE store_hints(librarian, cache_key(service_name, service_version),
                     query_hints(librarian, service_name, service_version, tool))

\* get_strategic_hints of a librarian that starts no subprocess (main.py:46 sets
\* demo_mode): the outcome of the tool is never read
get_strategic_hints(librarian, service_name, service_version) ==
    get_strategic_hints_given(librarian, service_name, service_version, "missing")

\* clear_cache
clear_cache(librarian) == [librarian EXCEPT !.hint_cache = <<>>]

first_min_confidence(hints) ==
    LET i == CHOOSE i \in DOMAIN hints :
                 /\ \A j \in DOMAIN hints : hints[j].confidence >= hints[i].confidence
                 /\ \A j \in 1..(i - 1) : hints[j].confidence > hints[i].confidence
    IN  hints[i]

\* max(hints, key=lambda h: h.confidence) : the first hint of the highest confidence
first_max_confidence(hints) ==
    LET i == CHOOSE i \in DOMAIN hints :
                 /\ \A j \in DOMAIN hints : hints[j].confidence <= hints[i].confidence
                 /\ \A j \in 1..(i - 1) : hints[j].confidence < hints[i].confidence
    IN  hints[i]

\* knowledge.py:460-463 : None for no hints, else the hint of highest confidence
best_of(got) ==
    [ hint      |-> IF got.raised \/ got.hints = <<>> THEN <<>>
                    ELSE <<first_max_confidence(got.hints)>>,
      hints     |-> got.hints,
      librarian |-> got.librarian,
      raised    |-> got.raised ]

\* get_best_hint when the external tool, if it is run, ends as `tool`: <<>> for
\* None, <<hint>> otherwise, the list it chose from, the librarian left behind, and
\* whether the lookup raised
get_best_hint_given(librarian, service_name, version, tool) ==
    best_of(get_strategic_hints_given(librarian, service_name, version, tool))

\* get_best_hint of a librarian that starts no subprocess
get_best_hint(librarian, service_name, version) ==
    get_best_hint_given(librarian, service_name, version, "missing")

handles_no_error == FALSE

\* env.py:92 : `except Exception` catches whatever the lookup raises
handles_lookup_error == TRUE

apply_hint_without_flag(state, service_name, got) ==
    [ state |-> IF got.raised
                THEN [state EXCEPT !.hint_available = 0]
                ELSE IF got.hint # <<>>
                THEN [state EXCEPT !.strategic_hint  = got.hint[1].action,
                                   !.hint_service    = service_name,
                                   !.hint_confidence = got.hint[1].confidence]
                ELSE state,
      hints     |-> got.hints,
      librarian |-> got.librarian,
      lookup_raised |-> got.raised,
      raised    |-> got.raised /\ ~handles_lookup_error ]

\* env.py:85-94 : the hint fields after the lookup returned or raised `got`
apply_hint(state, service_name, got) ==
    [ state |-> IF got.raised
                THEN [state EXCEPT !.hint_available = 0]
                ELSE IF got.hint # <<>>
                THEN [state EXCEPT !.strategic_hint  = got.hint[1].action,
                                   !.hint_available  = 1,
                                   !.hint_service    = service_name,
                                   !.hint_confidence = got.hint[1].confidence]
                ELSE state,
      hints     |-> got.hints,
      librarian |-> got.librarian,
      lookup_raised |-> got.raised,
      raised    |-> got.raised /\ ~handles_lookup_error ]

\* EnvironmentState._query_strategic_hints when the tool ends as `tool`; the call
\* to get_best_hint passes the service name alone, so the version is None
_query_strategic_hints_given(state, service_name, librarian, tool) ==
    apply_hint(state, service_name, get_best_hint_given(librarian, service_name, None, tool))

\* EnvironmentState._query_strategic_hints with a librarian that starts no subprocess
_query_strategic_hints(state, service_name, librarian) ==
    _query_strategic_hints_given(state, service_name, librarian, "missing")

clear_fields_keeping_blocked(state) ==
    [state EXCEPT !.current_access_level       = "none",
                  !.visited_components         = {},
                  !.discovered_services        = <<>>,
                  !.discovered_vulnerabilities = <<>>,
                  !.iteration_count            = 0,
                  !.strategic_hint             = None,
                  !.hint_available             = 0,
                  !.hint_service               = None,
                  !.hint_confidence            = 0,
                  !.hint_followed              = FALSE,
                  !.hint_success               = FALSE]

\* env.py:62-75 : the assignments and clear() calls of reset
clear_fields(state) ==
    [state EXCEPT !.current_access_level       = "none",
                  !.visited_components         = {},
                  !.blocked_ips                = {},
                  !.discovered_services        = <<>>,
                  !.discovered_vulnerabilities = <<>>,
                  !.iteration_count            = 0,
                  !.strategic_hint             = None,
                  !.hint_available             = 0,
                  !.hint_service               = None,
                  !.hint_confidence            = 0,
                  !.hint_followed              = FALSE,
                  !.hint_success               = FALSE]

\* EnvironmentState.reset when the tool ends as `tool`: the fields are cleared, then
\* the hint is queried if a target service is given (a librarian is always passed)
reset_given(state, target_service, librarian, tool) ==
    IF target_service # None
    THEN _query_strategic_hints_given(clear_fields(state), target_service, librarian, tool)
    ELSE [ state |-> clear_fields(state), hints |-> <<>>, librarian |-> librarian,
           lookup_raised |-> FALSE, raised |-> FALSE ]

\* EnvironmentState.reset with a librarian that starts no subprocess
reset(state, target_service, librarian) ==
    reset_given(state, target_service, librarian, "missing")


(***************************************************************************)
(* ai_agent.py                                                             *)
(***************************************************************************)
\* fixed-point unit of probabilities, rates and Q-values: one is 1000
ONE == 1000

\* QLearningAgent() with its defaults (main.py:40)
InitialAgent ==
    [ q_table       |-> [ table |-> <<>>, learning_rate |-> 100, discount_factor |-> 900,
                          epsilon |-> 100 ],
      epsilon       |-> 100,
      epsilon_decay |-> 995,
      min_epsilon   |-> 10,
      total_rewards |-> 0,
      episode_count |-> 0 ]

\* the value get_q_value returns
get_q_value(table, state, action) ==
    IF state \in DOMAIN table /\ action \in DOMAIN table[state]
    THEN table[state][action] ELSE 0

\* the table get_q_value and set_q_value leave behind: the state's row exists
with_row(table, state) ==
    IF state \in DOMAIN table THEN table ELSE (state :> <<>>) @@ table

set_q_value(table, state, action, value) ==
    LET t == with_row(table, state)
    IN  [t EXCEPT ![state] = (action :> value) @@ @]

max_of(values) == CHOOSE v \in values : \A w \in values : w <= v

\* the bootstrap term of update_q_value, read after get_q_value(state, action)
\* has created the state's row (ai_agent.py:50-56)
max_next_q(table, next_state) ==
    IF next_state \in DOMAIN table
    THEN IF DOMAIN table[next_state] # {}
         THEN max_of({table[next_state][a] : a \in DOMAIN table[next_state]})
         ELSE 0
    ELSE 0

\* the product of two floats, rounded to the nearest value the representation
\* holds, as a float product is
fmul(x, y) == (x * y + ONE \div 2) \div ONE

td_error_no_baseline(target, current_q) == target

\* ai_agent.py:59 : the bracket of the update, reward + gamma * max_next_q - current_q
td_error(target, current_q) == target - current_q

\* QTable.update_q_value; reward is a whole number, Q-values are in thousandths
QTable_update_q_value(q_table, state, action, r, next_state) ==
    LET lr        == q_table.learning_rate
        gamma     == q_table.discount_factor
        current_q == get_q_value(q_table.table, state, action)
        t1        == with_row(q_table.table, state)
        target    == r * ONE + fmul(gamma, max_next_q(t1, next_state))
        new_q     == current_q + fmul(lr, td_error(target, current_q))
    IN  [q_table EXCEPT !.table = set_q_value(t1, state, action, new_q)]

\* QTable.get_best_action : the actions it can return.  available_actions comes
\* from list(set(...)), whose order is arbitrary, and the scan keeps the first
\* strict maximum, so any action of maximal value can be the one returned.
get_best_action(q_table, state, available_actions) ==
    IF available_actions = {} THEN {}
    ELSE IF state \notin DOMAIN q_table.table \/ DOMAIN q_table.table[state] = {}
    THEN available_actions
    ELSE { a \in available_actions :
             \A b \in available_actions :
                 get_q_value(q_table.table, state, b) <= get_q_value(q_table.table, state, a) }

\* the probability with which a usable hint is returned at once, in thousandths
HINT_PRIORITY == 800

\* QLearningAgent.choose_action for the random samples u_hint and u_eps: the
\* actions it can return (available_actions is not empty)
choose_action(agent, state, available_actions, environment_state, u_hint, u_eps) ==
    IF /\ environment_state.hint_available = 1
       /\ environment_state.strategic_hint # None
       /\ environment_state.strategic_hint \in available_actions
       /\ u_hint < HINT_PRIORITY
    THEN {environment_state.strategic_hint}
    ELSE IF u_eps < agent.epsilon
    THEN available_actions
    ELSE get_best_action(agent.q_table, state, available_actions)

\* the elements of a list
Range(list) == { list[i] : i \in DOMAIN list }

\* ai_agent.py:71-78 : the scan keeps an action only if its value is strictly
\* above the best so far, so it ends on the first position of the maximal value
position_of_first_max(q_table, state, available_actions) ==
    { i \in DOMAIN available_actions :
        /\ \A j \in DOMAIN available_actions :
              get_q_value(q_table.table, state, available_actions[j])
                  <= get_q_value(q_table.table, state, available_actions[i])
        /\ \A j \in 1..(i - 1) :
              get_q_value(q_table.table, state, available_actions[j])
                  < get_q_value(q_table.table, state, available_actions[i]) }

\* QTable.get_best_action on the list it is given: the actions it can return
\* ({} for None).  random.choice is taken only for a state without stored values.
get_best_action_of_list(q_table, state, available_actions) ==
    IF available_actions = <<>> THEN {}
    ELSE IF state \notin DOMAIN q_table.table \/ DOMAIN q_table.table[state] = {}
    THEN Range(available_actions)
    ELSE { available_actions[i] :
             i \in position_of_first_max(q_table, state, available_actions) }

\* the branch QLearningAgent.choose_action takes for the samples u_hint and u_eps
choose_action_branch(agent, available_actions, environment_state, u_hint, u_eps) ==
    IF /\ environment_state.hint_available = 1
       /\ environment_state.strategic_hint # None
       /\ environment_state.strategic_hint \in Range(available_actions)
       /\ u_hint < HINT_PRIORITY
    THEN "hint"
    ELSE IF u_eps < agent.epsilon THEN "explore" ELSE "exploit"

\* QLearningAgent.choose_action on the list it is given (not empty): the actions
\* it can return
choose_action_of_list(agent, state, available_actions, environment_state, u_hint, u_eps) ==
    LET branch == choose_action_branch(agent, available_actions, environment_state,
                                       u_hint, u_eps)
    IN  IF branch = "hint" THEN {environment_state.strategic_hint}
        ELSE IF branch = "explore" THEN Range(available_actions)
        ELSE get_best_action_of_list(agent.q_table, state, available_actions)

SUCCESS_REWARD == 5
ESCALATION_REWARD == 10
COMPONENT_REWARD == 2
VULNERABILITY_REWARD == 3
HINT_SUCCESS_REWARD == 100
FAILURE_PENALTY == 2
IGNORED_HINT_PENALTY == 1
HINT_TRUST_BONUS == 2
BLOCKED_PENALTY == 10

\* the ranks calculate_reward gives the levels
access_levels == [none |-> 0, public |-> 1, internal |-> 2, admin |-> 3]

\* ai_agent.py:191-196 : the escalation term, from state.current_access_level as
\* the state holds it when calculate_reward is called
escalation_term(res, state) ==
    LET current_level == access_levels[state.current_access_level]
        new_level     == access_levels[res.new_access_level]
    IN  IF new_level > current_level
        THEN ESCALATION_REWARD * (new_level - current_level) ELSE 0

ignored_hint_term_any_failure(state, hint_match) ==
    IF state.hint_available = 1 THEN IGNORED_HINT_PENALTY ELSE 0

\* ai_agent.py:214-215 : the penalty for failing with an action other than the hint
ignored_hint_term(state, hint_match) ==
    IF state.hint_available = 1 /\ ~hint_match THEN IGNORED_HINT_PENALTY ELSE 0

\* QLearningAgent.calculate_reward : the reward and the state the call leaves behind
calculate_reward(res, state, action) ==
    LET hint_match == check_hint_match(state, action)
        r1 == IF res.success
              THEN SUCCESS_REWARD + escalation_term(res, state)
                   + (IF res.discovered_component # None THEN COMPONENT_REWARD ELSE 0)
                   + (IF res.vulnerability_found # None THEN VULNERABILITY_REWARD ELSE 0)
                   + (IF hint_match THEN HINT_SUCCESS_REWARD ELSE 0)
              ELSE 0 - FAILURE_PENALTY - ignored_hint_term(state, hint_match)
        s1 == IF res.success /\ hint_match THEN mark_hint_followed(state, TRUE) ELSE state
        trusted == hint_match /\ s1.hint_available = 1
        r2 == r1 + (IF trusted THEN HINT_TRUST_BONUS ELSE 0)
        s2 == IF trusted /\ ~res.success THEN mark_hint_followed(s1, FALSE) ELSE s1
        r3 == r2 - (IF res.blocked THEN BLOCKED_PENALTY ELSE 0)
    IN  [ reward |-> r3, state |-> s2 ]

\* QLearningAgent.update_q_value
update_q_value(agent, state, action, r, next_state) ==
    [agent EXCEPT !.q_table = QTable_update_q_value(@, state, action, r, next_state),
                  !.total_rewards = @ + r]

\* QLearningAgent.reset
agent_reset(agent) ==
    [agent EXCEPT !.q_table.table = <<>>, !.epsilon = 100,
                  !.total_rewards = 0, !.episode_count = 0]


(***************************************************************************)
(* storage.py                                                              *)
(***************************************************************************)
\* _init_database on a new file: both tables empty
InitialStorage == [ attack_paths |-> <<>>, path_statistics |-> <<>> ]

level_scores == [none |-> 0, public |-> 10, internal |-> 30, admin |-> 100]

\* _calculate_path_score, in thousandths
_calculate_path_score(final_access_level, successful_attacks, failed_attacks, vulnerability_count) ==
    LET base   == (IF final_access_level \in DOMAIN level_scores
                   THEN level_scores[final_access_level] ELSE 0) * ONE
        total  == successful_attacks + failed_attacks
        scaled == IF total > 0 THEN (base * (total + successful_attacks)) \div total
                  ELSE base
        bonus  == scaled + vulnerability_count * 5 * ONE
    IN  IF failed_attacks > 0 THEN bonus - (failed_attacks * ONE) \div 2 ELSE bonus

count_all_steps(attack_path) == Len(attack_path)

\* storage.py:79 : sum(1 for step in attack_path if step.get("success", False))
count_successes(attack_path) ==
    Cardinality({i \in DOMAIN attack_path : attack_path[i].success})

stat_rows_of_first_use(path_id, attack_path) ==
    LET firsts == SelectSeq([i \in DOMAIN attack_path |-> i],
                            LAMBDA i : \A j \in 1..(i - 1) :
                                           attack_path[j].action # attack_path[i].action)
    IN  [k \in DOMAIN firsts |->
            [ path_id       |-> path_id,
              action_type   |-> attack_path[firsts[k]].action,
              success_count |-> IF attack_path[firsts[k]].success THEN 1 ELSE 0,
              failure_count |-> IF attack_path[firsts[k]].success THEN 0 ELSE 1 ]]

\* _update_statistics : one row per distinct action, in the order of first use
stat_rows(path_id, attack_path) ==
    LET firsts == SelectSeq([i \in DOMAIN attack_path |-> i],
                            LAMBDA i : \A j \in 1..(i - 1) :
                                           attack_path[j].action # attack_path[i].action)
        tally(action, ok) ==
            Cardinality({j \in DOMAIN attack_path :
                            attack_path[j].action = action /\ attack_path[j].success = ok})
    IN  [k \in DOMAIN firsts |->
            [ path_id       |-> path_id,
              action_type   |-> attack_path[firsts[k]].action,
              success_count |-> tally(attack_path[firsts[k]].action, TRUE),
              failure_count |-> tally(attack_path[firsts[k]].action, FALSE) ]]

\* the rows a connection has inserted and not committed
NoTransaction == [ attack_paths |-> <<>>, path_statistics |-> <<>> ]

\* storage.py:78-107 : the tallies, the score and the INSERT into attack_paths;
\* the id is the AUTOINCREMENT key, one above the keys of the committed rows
insert_path(store, txn, attack_path, final_access_level, vulnerabilities) ==
    LET successful_attacks == count_successes(attack_path)
        failed_attacks     == Len(attack_path) - successful_attacks
        score   == _calculate_path_score(final_access_level, successful_attacks,
                                         failed_attacks, Len(vulnerabilities))
        path_id == Len(store.attack_paths) + 1
        row     == [ id                         |-> path_id,
                     final_access_level         |-> final_access_level,
                     total_iterations           |-> Len(attack_path),
                     successful_attacks         |-> successful_attacks,
                     failed_attacks             |-> failed_attacks,
                     discovered_vulnerabilities |-> vulnerabilities,
                     attack_path                |-> attack_path,
                     score                      |-> score ]
    IN  [txn EXCEPT !.attack_paths = Append(@, row)]

\* storage.py:107 : cursor.lastrowid after the INSERT
lastrowid(txn) == txn.attack_paths[Len(txn.attack_paths)].id

\* storage.py:110 : _update_statistics(cursor, path_id, attack_path)
_update_statistics(txn, path_id, attack_path) ==
    [txn EXCEPT !.path_statistics = @ \o stat_rows(path_id, attack_path)]

\* storage.py:112 : conn.commit() makes the inserted rows part of the tables
commit(store, txn) ==
    [ attack_paths    |-> store.attack_paths \o txn.attack_paths,
      path_statistics |-> store.path_statistics \o txn.path_statistics ]

on_close_commits(store, txn) == commit(store, txn)

\* a connection that goes away with rows not committed: sqlite rolls them back
on_close(store, txn) == store

\* storage.py:110 with the row just inserted
with_statistics(txn, attack_path) == _update_statistics(txn, lastrowid(txn), attack_path)

\* save_attack_path without a score, when nothing fails: the tables after the commit
save_attack_path(store, attack_path, final_access_level, vulnerabilities) ==
    commit(store,
           with_statistics(insert_path(store, NoTransaction, attack_path,
                                       final_access_level, vulnerabilities),
                           attack_path))

rows_of_min_score(rows) ==
    { i \in DOMAIN rows : \A j \in DOMAIN rows : rows[j].score >= rows[i].score }

\* ORDER BY score DESC : the positions of the rows that can come first
rows_of_max_score(rows) ==
    { i \in DOMAIN rows : \A j \in DOMAIN rows : rows[j].score <= rows[i].score }

\* get_best_attack_path : SELECT ... ORDER BY score DESC LIMIT 1.  The rows it can
\* return ({} for None); among rows of equal score sqlite returns any one
get_best_attack_path(store) ==
    { store.attack_paths[i] : i \in rows_of_max_score(store.attack_paths) }


(***************************************************************************)
(* main.py : the request handlers.  Every handler is an `async def` run by  *)
(* the one event loop of uvicorn.run: the loop starts another handler only *)
(* when no handler runs or when the running one is at an await expression  *)
(* that suspends it.                                                       *)
(***************************************************************************)
suspends_at_loop(p) == p = "loop"

\* main.py:174-245 : whether run_simulation, at position p between its reset and
\* its return, is at an await expression; the code holds none there
suspends_at(p) == FALSE

\* the event loop may start a handler
handler_may_start(p) == p = "idle" \/ suspends_at(p)

IdleSim == [ iterations |-> 0, i |-> 0, attack_path |-> <<>>,
             successful_attacks |-> 0, failed_attacks |-> 0,
             target_service |-> None, service_version |-> None ]

NoCall == [ op |-> "none" ]

\* no handler has returned yet
NoResponse == [ status |-> 0 ]

\* the action identifiers an attack request carries: one that no simulation
\* offers, the step to each level, two that find a vulnerability, and an
\* identifier outside the catalog
AttackInputs ==
    { "authentication_bypass_attempt", "session_hijack_attempt",
      "privilege_escalation_attempt", "sql_injection_attempt",
      "command_injection_attempt", "port_scan_attempt" }

\* what the recon scan of a simulate request reports (scan_result.services)
ScanResults ==
    { <<>>,
      << [name |-> "FTP", version |-> "vsftpd 3.0.3"] >>,
      << [name |-> "HTTP", version |-> "Apache/2.4.41"] >>,
      << [name |-> "Redis", version |-> None], [name |-> "HTTP", version |-> "Apache/2.4.41"] >> }

\* the (service name, version) pairs a query-hints request carries
QueryInputs == { <<"Apache", None>>, <<"Redis", "unknown">>, <<"PHP", None>> }

Init ==
    /\ environment = InitialEnvironment
    /\ ai_agent = InitialAgent
    /\ storage = InitialStorage
    /\ exploit_librarian = InitialLibrarian
    /\ pc = "idle"
    /\ sim = IdleSim
    /\ result = <<>>
    /\ reward = <<>>
    /\ response = NoResponse
    /\ call = NoCall
    /\ budget = MaxSteps

is_attack_action_any(action_str) == TRUE

\* main.py:129-132 : AttackAction(request.action) raises ValueError, answered with
\* HTTPException(400), unless the string is the value of a member
is_attack_action(action_str) == action_str \in AttackAction

\* POST /api/attack (main.py:123-154).  The call at main.py:138 passes
\* calculate_reward two of its three required arguments: it raises TypeError
\* after execute_attack has run, so the handler ends there with a server error.
AttackRequest(action_str) ==
    /\ handler_may_start(pc)
    /\ budget >= 1
    /\ budget' = budget - 1
    /\ IF ~is_attack_action(action_str)
       THEN /\ response' = [ status |-> 400 ]
            /\ result' = <<>>
            /\ call' = NoCall
            /\ UNCHANGED environment
       ELSE \E u_detect \in Samples, u_success \in Samples, n \in ComponentDraws :
               LET r == execute_attack(action_str, environment, u_detect, u_success, n)
               IN  /\ environment' = r.state
                   /\ result' = <<r.result>>
                   /\ call' = [ op |-> "execute_attack", action |-> action_str ]
                   /\ response' = [ status |-> 500 ]
    /\ reward' = <<>>
    /\ UNCHANGED <<ai_agent, storage, exploit_librarian, pc, sim>>

\* POST /api/reset (main.py:344-349)
ResetRequest ==
    /\ handler_may_start(pc)
    /\ budget >= 1
    /\ budget' = budget - 1
    /\ LET r == reset(environment, None, exploit_librarian)
       IN  /\ environment' = r.state
           /\ exploit_librarian' = r.librarian
    /\ ai_agent' = agent_reset(ai_agent)
    /\ result' = <<>>
    /\ reward' = <<>>
    /\ response' = [ status |-> 200 ]
    /\ call' = NoCall
    /\ UNCHANGED <<storage, pc, sim>>

\* POST /api/query-hints (main.py:491-538)
QueryHintsRequest(service_name, service_version) ==
    /\ handler_may_start(pc)
    /\ budget >= 1
    /\ budget' = budget - 1
    /\ LET all  == get_strategic_hints(exploit_librarian, service_name, service_version)
           best == get_best_hint(all.librarian, service_name, service_version)
       IN  /\ exploit_librarian' = best.librarian
           /\ environment' =
                 IF best.hint # <<>>
                 THEN [environment EXCEPT !.strategic_hint  = best.hint[1].action,
                                          !.hint_available  = 1,
                                          !.hint_service    = service_name,
                                          !.hint_confidence = best.hint[1].confidence]
                 ELSE environment
           /\ response' = [ status |-> 200, best_hint |-> best.hint, all_hints |-> all.hints ]
    /\ result' = <<>>
    /\ reward' = <<>>
    /\ call' = NoCall
    /\ UNCHANGED <<ai_agent, storage, pc, sim>>

range_has_next_inclusive(i, iterations) == i <= iterations

\* for i in range(request.iterations) : whether index i is still in the range
range_has_next(i, iterations) == i < iterations

admin_reached_never(state) == FALSE

\* main.py:226 : the test that leaves the loop
admin_reached(state) == state.current_access_level = "admin"

\* POST /api/simulate up to the loop (main.py:163-176): the scan, the assignment of
\* discovered_services, reset() with the first service's name, the empty locals
SimStart(has_target, services, iterations) ==
    /\ handler_may_start(pc)
    /\ budget >= 1 + iterations
    /\ budget' = budget - (1 + iterations)
    /\ LET target_service == IF has_target /\ services # <<>> THEN services[1].name ELSE None
           scanned == IF has_target
                      THEN [environment EXCEPT
                               !.discovered_services =
                                   [i \in DOMAIN services |-> services[i].name]]
                      ELSE environment
           r == reset(scanned, target_service, exploit_librarian)
       IN  /\ environment' = r.state
           /\ exploit_librarian' = r.librarian
    /\ sim' = [IdleSim EXCEPT
                  !.iterations      = iterations,
                  !.target_service  = IF has_target /\ services # <<>>
                                      THEN services[1].name ELSE None,
                  !.service_version = IF has_target /\ services # <<>>
                                      THEN services[1].version ELSE None]
    /\ pc' = IF range_has_next(0, iterations) THEN "loop" ELSE "save"
    /\ result' = <<>>
    /\ reward' = <<>>
    /\ response' = NoResponse
    /\ call' = NoCall
    /\ UNCHANGED <<ai_agent, storage>>

\* one pass of the loop body (main.py:179-227)
SimStep ==
    /\ pc = "loop"
    /\ \E u_hint \in Samples, u_eps \in Samples, u_detect \in Samples,
          u_success \in Samples, n \in ComponentDraws :
         LET state_key == environment.current_access_level
             available_actions == get_available_actions(environment.current_access_level)
         IN  \E action_str \in choose_action(ai_agent, state_key, available_actions,
                                             environment, u_hint, u_eps) :
               LET ex  == execute_attack(action_str, environment, u_detect, u_success, n)
                   res == ex.result
                   cr  == calculate_reward(res, ex.state, action_str)
                   new_state_key == res.new_access_level
                   step == [ iteration            |-> sim.i + 1,
                             action               |-> action_str,
                             success              |-> res.success,
                             access_level         |-> res.new_access_level,
                             message              |-> res.message,
                             reward               |-> cr.reward,
                             discovered_component |-> res.discovered_component,
                             vulnerability_found  |-> res.vulnerability_found,
                             blocked              |-> res.blocked,
                             hint_available       |-> cr.state.hint_available,
                             hint_matched         |-> check_hint_match(cr.state, action_str),
                             strategic_hint       |-> cr.state.strategic_hint ]
               IN  /\ environment' = cr.state
                   /\ result' = <<res>>
                   /\ call' = [ op |-> "execute_attack", action |-> action_str ]
                   /\ reward' = <<cr.reward>>
                   /\ ai_agent' = update_q_value(ai_agent, state_key, action_str,
                                                 cr.reward, new_state_key)
                   /\ sim' = [sim EXCEPT
                                !.i = @ + 1,
                                !.attack_path = Append(@, step),
                                !.successful_attacks = IF res.success THEN @ + 1 ELSE @,
                                !.failed_attacks = IF res.success THEN @ ELSE @ + 1]
                   /\ pc' = IF admin_reached(cr.state) THEN "save"
                            ELSE IF range_has_next(sim.i + 1, sim.iterations) THEN "loop"
                            ELSE "save"
    /\ UNCHANGED <<storage, exploit_librarian, response, budget>>

\* the end of run_simulation (main.py:229-245): the path is stored and returned
SimSave ==
    /\ pc = "save"
    /\ storage' = save_attack_path(storage, sim.attack_path,
                                   environment.current_access_level,
                                   environment.discovered_vulnerabilities)
    /\ response' = [ status                     |-> 200,
                     attack_path                |-> sim.attack_path,
                     final_access_level         |-> environment.current_access_level,
                     total_iterations           |-> Len(sim.attack_path),
                     successful_attacks         |-> sim.successful_attacks,
                     failed_attacks             |-> sim.failed_attacks,
                     discovered_vulnerabilities |-> environment.discovered_vulnerabilities,
                     strategic_hint_used        |-> environment.strategic_hint,
                     hint_success               |-> environment.hint_success ]
    /\ pc' = "idle"
    /\ sim' = IdleSim
    /\ call' = NoCall
    /\ UNCHANGED <<environment, ai_agent, exploit_librarian, result, reward, budget>>

Next ==
    \/ \E a \in AttackInputs : AttackRequest(a)
    \/ ResetRequest
    \/ \E q \in QueryInputs : QueryHintsRequest(q[1], q[2])
    \/ \E services \in ScanResults, k \in 0..(MaxSteps - 1) : SimStart(TRUE, services, k)
    \/ \E k \in 0..(MaxSteps - 1) : SimStart(FALSE, <<>>, k)
    \/ SimStep
    \/ SimSave

Spec == Init /\ [][Next]_vars


(***************************************************************************)
(* calculate_reward on its own: the result, the action and the state are   *)
(* drawn at the start, and the function is applied to them, then again to  *)
(* the state the first call left behind.                                   *)
(***************************************************************************)
\* how many times calculate_reward is applied in a row
MaxCalls == 2

\* the results execute_attack builds: a success discovers a component and may
\* find a vulnerability, a failure discovers nothing and may be a blocked one
RewardResults ==
    { AttackResult(TRUE, l, <<"Successfully executed">>, c, v, FALSE) :
          l \in AccessLevel, c \in {"service_1"}, v \in {None, "SQL Injection"} }
    \cup
    { AttackResult(FALSE, l, <<"Failed to execute">>, None, None, b) :
          l \in AccessLevel, b \in BOOLEAN }

RewardActions == {"xss_attempt", "public_access_attempt"}

\* the states calculate_reward is called on: any level, no hint or a hint with
\* hint_available = 1, any record of an earlier hint-follow
RewardStates ==
    { [InitialEnvironment EXCEPT
          !.current_access_level = l,
          !.strategic_hint  = h,
          !.hint_available  = IF h = None THEN 0 ELSE 1,
          !.hint_service    = IF h = None THEN None ELSE "HTTP",
          !.hint_confidence = IF h = None THEN 0 ELSE 500,
          !.hint_followed   = f,
          !.hint_success    = f /\ g] :
          l \in AccessLevel, h \in {None, "xss_attempt", "command_injection_attempt"},
          f \in BOOLEAN, g \in BOOLEAN }

InitReward ==
    /\ environment \in RewardStates
    /\ \E r \in RewardResults, a \in RewardActions :
          call = [ op |-> "calculate_reward", result |-> r, action |-> a,
                   state |-> environment, calls |-> 0 ]
    /\ ai_agent = InitialAgent
    /\ storage = InitialStorage
    /\ exploit_librarian = InitialLibrarian
    /\ pc = "idle"
    /\ sim = IdleSim
    /\ result = <<>>
    /\ reward = <<>>
    /\ response = NoResponse
    /\ budget = 0

ApplyReward ==
    /\ call.op = "calculate_reward"
    /\ call.calls < MaxCalls
    /\ LET cr == calculate_reward(call.result, environment, call.action)
       IN  /\ reward' = <<cr.reward>>
           /\ environment' = cr.state
    /\ call' = [call EXCEPT !.calls = @ + 1]
    /\ UNCHANGED <<ai_agent, storage, exploit_librarian, pc, sim, result, response, budget>>

NextReward == ApplyReward

RewardSpec == InitReward /\ [][NextReward]_vars

(***************************************************************************)
(* QLearningAgent.update_q_value on its own: a table, a reward and a next  *)
(* state are drawn at the start and the same update is applied repeatedly. *)
(***************************************************************************)
\* how many times the update is applied in a row
MaxUpdates == 6

\* the stored values the updates start from, in thousandths
QStarts == {0 - 12000, 0 - 2004, 0 - 1996, 0, 4960, 4990, 4996, 5000, 5004, 5040, 107000}

\* the rewards calculate_reward can give
QRewards == {0 - 12, 0 - 2, 0, 5, 7, 107}

\* the tables the updates start from: the pair (state, action) stored or not, the
\* next state with no row, with an empty row (as get_q_value leaves it), or with
\* one stored value
QTables ==
    { own @@ next :
        own  \in { <<>> } \cup { ("none" :> ("sql_injection_attempt" :> q0)) : q0 \in QStarts },
        next \in { <<>>, ("public" :> <<>>), ("public" :> ("xss_attempt" :> (0 - 3000))) } }

InitQ ==
    /\ \E table \in QTables :
          ai_agent = [InitialAgent EXCEPT !.q_table.table = table]
    /\ \E r \in QRewards :
          call = [ op |-> "update_q_value", state |-> "none",
                   action |-> "sql_injection_attempt", r |-> r,
                   next_state |-> "public", calls |-> 0 ]
    /\ environment = InitialEnvironment
    /\ storage = InitialStorage
    /\ exploit_librarian = InitialLibrarian
    /\ pc = "idle"
    /\ sim = IdleSim
    /\ result = <<>>
    /\ reward = <<>>
    /\ response = NoResponse
    /\ budget = 0

ApplyUpdate ==
    /\ call.op = "update_q_value"
    /\ call.calls < MaxUpdates
    /\ ai_agent' = update_q_value(ai_agent, call.state, call.action, call.r, call.next_state)
    /\ call' = [call EXCEPT !.calls = @ + 1]
    /\ UNCHANGED <<environment, storage, exploit_librarian, pc, sim, result, reward,
                   response, budget>>

NextQ == ApplyUpdate

QSpec == InitQ /\ [][NextQ]_vars

(***************************************************************************)
(* ExploitLibrarian on its own: a librarian is constructed in demo mode or *)
(* not, with the external tool found or not, and then asked for hints and  *)
(* told to clear its cache in any order.                                   *)
(***************************************************************************)
\* how many calls the librarian receives
MaxLookups == 3

\* ExploitLibrarian(demo_mode): _check_searchsploit answers False in demo mode
Librarians ==
    { [ demo_mode |-> d, searchsploit_available |-> a, hint_cache |-> <<>> ] :
          d \in BOOLEAN, a \in BOOLEAN } \ { [ demo_mode |-> TRUE,
                                               searchsploit_available |-> TRUE,
                                               hint_cache |-> <<>> ] }

\* the (service, version) pairs the librarian is asked about
LibQueries ==
    { <<"Apache", None>>, <<"Apache", "2.4.50">>, <<"Apache", "unknown">>,
      <<"Redis", None>>, <<"SMTP", None>> }

\* no underlying query has run for any pair
NoQueries == [q \in LibQueries |-> 0]

InitLib ==
    /\ exploit_librarian \in Librarians
    /\ call = [ op |-> "none", calls |-> 0, queries |-> NoQueries ]
    /\ environment = InitialEnvironment
    /\ ai_agent = InitialAgent
    /\ storage = InitialStorage
    /\ pc = "idle"
    /\ sim = IdleSim
    /\ result = <<>>
    /\ reward = <<>>
    /\ response = NoResponse
    /\ budget = 0

\* one get_strategic_hints(service_name, service_version) call; call.queries counts,
\* per pair, the underlying queries of the calls that returned since the last clear
Lookup(service_name, service_version, tool) ==
    /\ call.calls < MaxLookups
    /\ LET got == get_strategic_hints_given(exploit_librarian, service_name,
                                            service_version, tool)
           q   == <<service_name, service_version>>
       IN  /\ exploit_librarian' = got.librarian
           /\ call' = [ op      |-> "get_strategic_hints",
                        service |-> service_name,
                        version |-> service_version,
                        tool    |-> tool,
                        hints   |-> got.hints,
                        raised  |-> got.raised,
                        queried |-> got.queried,
                        calls   |-> call.calls + 1,
                        queries |-> IF got.queried /\ ~got.raised
                                    THEN [call.queries EXCEPT ![q] = @ + 1]
                                    ELSE call.queries ]
    /\ UNCHANGED <<environment, ai_agent, storage, pc, sim, result, reward, response, budget>>

ClearCache ==
    /\ call.calls < MaxLookups
    /\ exploit_librarian' = clear_cache(exploit_librarian)
    /\ call' = [ op |-> "clear_cache", calls |-> call.calls + 1, queries |-> NoQueries ]
    /\ UNCHANGED <<environment, ai_agent, storage, pc, sim, result, reward, response, budget>>

NextLib ==
    \/ \E q \in LibQueries, tool \in ToolOutcomes : Lookup(q[1], q[2], tool)
    \/ ClearCache

LibSpec == InitLib /\ [][NextLib]_vars

(***************************************************************************)
(* The handlers together with direct calls of ai_agent.choose_action, with *)
(* the list of the current level or with an empty list.                    *)
(***************************************************************************)
\* ai_agent.py:136-137 : `if not available_actions: raise ValueError(...)`
choose_action_raises(available_actions) == available_actions = {}

\* ai_agent.choose_action(state_key, available_actions, environment)
ChooseCall(available_actions, u_hint, u_eps) ==
    /\ pc = "idle"
    /\ budget >= 1
    /\ budget' = budget - 1
    /\ IF choose_action_raises(available_actions)
       THEN call' = [ op |-> "choose_action", available |-> available_actions,
                      raised |-> TRUE, chosen |-> None ]
       ELSE \E a \in choose_action(ai_agent, environment.current_access_level,
                                   available_actions, environment, u_hint, u_eps) :
               call' = [ op |-> "choose_action", available |-> available_actions,
                         raised |-> FALSE, chosen |-> a ]
    /\ UNCHANGED <<environment, ai_agent, storage, exploit_librarian, pc, sim, result,
                   reward, response>>

NextInput ==
    \/ Next
    \/ \E available_actions \in {{}, get_available_actions(environment.current_access_level)},
          u_hint \in Samples, u_eps \in Samples :
          ChooseCall(available_actions, u_hint, u_eps)

InputSpec == Init /\ [][NextInput]_vars

(***************************************************************************)
(* EnvironmentState.reset on its own: an environment and a librarian are   *)
(* given, attacks and rewards change the environment, and reset is called  *)
(* with or without a target service, the tool ending in any way.           *)
(***************************************************************************)
\* how many calls the environment receives
MaxResetCalls == 3

\* the target services reset is called with; None: no target service
ResetTargets == {None, "Apache", "PHP", "SMTP", "Redis"}

\* an environment in which every field differs from its default
UsedEnvironment ==
    [ current_access_level       |-> "internal",
      visited_components         |-> {"service_3"},
      blocked_ips                |-> {ATTACKER_IP},
      discovered_services        |-> <<"HTTP">>,
      discovered_vulnerabilities |-> <<"SQL Injection">>,
      iteration_count            |-> 2,
      strategic_hint             |-> "xss_attempt",
      hint_available             |-> 1,
      hint_service               |-> "HTTP",
      hint_confidence            |-> 500,
      hint_followed              |-> TRUE,
      hint_success               |-> TRUE ]

InitReset ==
    /\ environment \in {InitialEnvironment, UsedEnvironment}
    /\ exploit_librarian \in Librarians
    /\ call = [ op |-> "none", calls |-> 0 ]
    /\ ai_agent = InitialAgent
    /\ storage = InitialStorage
    /\ pc = "idle"
    /\ sim = IdleSim
    /\ result = <<>>
    /\ reward = <<>>
    /\ response = NoResponse
    /\ budget = 0

\* environment.reset(target_service, librarian)
ResetCall(target_service, tool) ==
    /\ call.calls < MaxResetCalls
    /\ LET r == reset_given(environment, target_service, exploit_librarian, tool)
       IN  /\ environment' = r.state
           /\ exploit_librarian' = r.librarian
           /\ call' = [ op            |-> "reset",
                        before        |-> environment,
                        target        |-> target_service,
                        hints         |-> r.hints,
                        lookup_raised |-> r.lookup_raised,
                        raised        |-> r.raised,
                        calls         |-> call.calls + 1 ]
    /\ UNCHANGED <<ai_agent, storage, pc, sim, result, reward, response, budget>>

\* an attack and its reward between two resets
UseCall(action, u_detect, u_success, n) ==
    /\ call.calls < MaxResetCalls
    /\ LET ex == execute_attack(action, environment, u_detect, u_success, n)
           cr == calculate_reward(ex.result, ex.state, action)
       IN  environment' = cr.state
    /\ call' = [ op |-> "execute_attack", action |-> action, calls |-> call.calls + 1 ]
    /\ UNCHANGED <<exploit_librarian, ai_agent, storage, pc, sim, result, reward,
                   response, budget>>

NextReset ==
    \/ \E target_service \in ResetTargets, tool \in {"results", "timeout", "os_error"} :
          ResetCall(target_service, tool)
    \/ \E action \in {"public_access_attempt", "path_traversal_attempt"},
          u_detect \in Samples, u_success \in Samples, n \in ComponentDraws :
          UseCall(action, u_detect, u_success, n)

ResetSpec == InitReset /\ [][NextReset]_vars

(***************************************************************************)
(* ai_agent.choose_action on its own: a list of actions, a Q-table row and *)
(* a hint are given, and choose_action is called with them.                *)
(***************************************************************************)
MaxChoices == 2

ChoiceActions == {"public_access_attempt", "sql_injection_attempt", "xss_attempt"}

\* the lists of one to three different actions
ChoiceLists ==
    { l \in UNION { [1..n -> ChoiceActions] : n \in 1..3 } :
        \A i \in DOMAIN l, j \in DOMAIN l : l[i] = l[j] => i = j }

ChoiceValues == {0 - 2000, 0, 5000}

\* the tables: no row for the state, or a row storing values for some actions
ChoiceTables ==
    { <<>> } \cup
    { ("none" :> row) : row \in UNION { [S -> ChoiceValues] : S \in SUBSET ChoiceActions } }

\* the hint fields: no hint, a hint that may be in the list, a hint that is not
ChoiceHints == {None, "xss_attempt", "command_injection_attempt"}

InitChoice ==
    /\ \E hint \in ChoiceHints :
          environment = IF hint = None THEN InitialEnvironment
                        ELSE [InitialEnvironment EXCEPT !.strategic_hint  = hint,
                                                        !.hint_available  = 1,
                                                        !.hint_service    = "HTTP",
                                                        !.hint_confidence = 500]
    /\ \E table \in ChoiceTables :
          ai_agent = [InitialAgent EXCEPT !.q_table.table = table]
    /\ call = [ op |-> "none", calls |-> 0 ]
    /\ storage = InitialStorage
    /\ exploit_librarian = InitialLibrarian
    /\ pc = "idle"
    /\ sim = IdleSim
    /\ result = <<>>
    /\ reward = <<>>
    /\ response = NoResponse
    /\ budget = 0

\* ai_agent.choose_action(state_key, available_actions, environment)
Choose(available_actions, u_hint, u_eps) ==
    /\ call.calls < MaxChoices
    /\ \E a \in choose_action_of_list(ai_agent, environment.current_access_level,
                                      available_actions, environment, u_hint, u_eps) :
          call' = [ op        |-> "choose_action",
                    available |-> available_actions,
                    branch    |-> choose_action_branch(ai_agent, available_actions,
                                                       environment, u_hint, u_eps),
                    possible  |-> choose_action_of_list(ai_agent,
                                      environment.current_access_level,
                                      available_actions, environment, u_hint, u_eps),
                    chosen    |-> a,
                    calls     |-> call.calls + 1 ]
    /\ UNCHANGED <<environment, ai_agent, storage, exploit_librarian, pc, sim, result,
                   reward, response, budget>>

NextChoice ==
    \E available_actions \in ChoiceLists, u_hint \in Samples, u_eps \in Samples :
       Choose(available_actions, u_hint, u_eps)

ChoiceSpec == InitChoice /\ [][NextChoice]_vars

(***************************************************************************)
(* storage.py on its own: paths are saved, a save can fail after its first *)
(* INSERT, and readers open their own connection, which shows them the     *)
(* committed tables alone.  `call` holds the connection of the save that   *)
(* is under way: the rows it has inserted and the statement it is at.      *)
(***************************************************************************)
MaxSaves == 2

\* a path of `ok` successful steps followed by `ko` failed ones
path_of(ok, ko) ==
    [i \in 1..(ok + ko) |->
        [ action  |-> IF i % 2 = 1 THEN "sql_injection_attempt" ELSE "xss_attempt",
          success |-> i <= ok ]]

StorePaths == { path_of(t[1], t[2]) : t \in {<<0, 0>>, <<1, 0>>, <<0, 1>>, <<1, 2>>, <<8, 2>>} }

\* the levels and a string that is no level
StoreLevels == AccessLevel \cup {"root"}

StoreVulnerabilities == { <<>>, <<"SQL Injection", "XSS", "Path Traversal">> }

\* what a statement of the save can do: succeed, or raise (sqlite3.Error, or a
\* TypeError of _update_statistics on a step it cannot tally)
StatementOutcomes == {"ok", "error"}

NoSave == [ op |-> "none", at |-> "done", txn |-> NoTransaction, attack_path |-> <<>>,
            saves |-> 0, locked |-> FALSE ]

InitStore ==
    /\ storage = InitialStorage
    /\ call = NoSave
    /\ environment = InitialEnvironment
    /\ ai_agent = InitialAgent
    /\ exploit_librarian = InitialLibrarian
    /\ pc = "idle"
    /\ sim = IdleSim
    /\ result = <<>>
    /\ reward = <<>>
    /\ response = NoResponse
    /\ budget = 0

\* save_attack_path up to path_id = cursor.lastrowid (storage.py:75-107)
SaveInsertPath(attack_path, final_access_level, vulnerabilities) ==
    /\ call.at = "done"
    /\ call.saves < MaxSaves
    /\ call' = [ op          |-> "save_attack_path",
                 at          |-> "statistics",
                 txn         |-> insert_path(storage, NoTransaction, attack_path,
                                             final_access_level, vulnerabilities),
                 attack_path |-> attack_path,
                 saves       |-> call.saves + 1,
                 locked      |-> FALSE ]
    /\ UNCHANGED <<storage, environment, ai_agent, exploit_librarian, pc, sim, result,
                   reward, response, budget>>

\* self._update_statistics(cursor, path_id, attack_path) (storage.py:110)
SaveStatistics(outcome) ==
    /\ call.at = "statistics"
    /\ call' = IF outcome = "ok"
               THEN [call EXCEPT !.at = "commit",
                                 !.txn = with_statistics(@, call.attack_path)]
               ELSE [call EXCEPT !.at = "raised"]
    /\ UNCHANGED <<storage, environment, ai_agent, exploit_librarian, pc, sim, result,
                   reward, response, budget>>

\* conn.commit(); conn.close(); return path_id (storage.py:112-115)
SaveCommit ==
    /\ call.at = "commit"
    /\ storage' = commit(storage, call.txn)
    /\ call' = [call EXCEPT !.at = "done", !.txn = NoTransaction]
    /\ UNCHANGED <<environment, ai_agent, exploit_librarian, pc, sim, result, reward,
                   response, budget>>

\* the connection of a save that raised is closed when it is collected
ConnectionCollected ==
    /\ call.at = "raised"
    /\ storage' = on_close(storage, call.txn)
    /\ call' = [call EXCEPT !.at = "done", !.txn = NoTransaction]
    /\ UNCHANGED <<environment, ai_agent, exploit_librarian, pc, sim, result, reward,
                   response, budget>>

\* save_attack_path while the connection of a save that raised is still open: its
\* INSERT (storage.py:92) raises "database is locked" and nothing is written
SaveLocked ==
    /\ call.at = "raised"
    /\ ~call.locked
    /\ call' = [call EXCEPT !.locked = TRUE]
    /\ UNCHANGED <<storage, environment, ai_agent, exploit_librarian, pc, sim, result,
                   reward, response, budget>>

\* GET /api/best-path (main.py:335-341), on a connection of its own
BestPathRequest ==
    /\ IF get_best_attack_path(storage) = {}
       THEN response' = [ status |-> 404, detail |-> "No attack paths found" ]
       ELSE \E best_path \in get_best_attack_path(storage) :
               response' = [ status |-> 200, best_path |-> best_path ]
    /\ UNCHANGED <<storage, call, environment, ai_agent, exploit_librarian, pc, sim,
                   result, reward, budget>>

NextStore ==
    \/ \E attack_path \in StorePaths, final_access_level \in StoreLevels,
          vulnerabilities \in StoreVulnerabilities :
          SaveInsertPath(attack_path, final_access_level, vulnerabilities)
    \/ \E outcome \in StatementOutcomes : SaveStatistics(outcome)
    \/ SaveCommit
    \/ ConnectionCollected
    \/ SaveLocked
    \/ BestPathRequest

StoreSpec == InitStore /\ [][NextStore]_vars

(***************************************************************************)
(* run_simulation on its own: simulate requests with a target host on the  *)
(* freshly started application, of up to MaxIterations iterations.         *)
(***************************************************************************)
MaxIterations == 3

InitEpisode ==
    /\ environment = InitialEnvironment
    /\ ai_agent = InitialAgent
    /\ storage = InitialStorage
    /\ exploit_librarian = InitialLibrarian
    /\ pc = "idle"
    /\ sim = IdleSim
    /\ result = <<>>
    /\ reward = <<>>
    /\ response = NoResponse
    /\ call = NoCall
    /\ budget = MaxIterations + 1

\* what the recon scan reports: no service, or HTTP first
EpisodeScans == { <<>>, << [name |-> "HTTP", version |-> "Apache/2.4.41"] >> }

NextEpisode ==
    \/ \E services \in EpisodeScans, k \in 0..MaxIterations : SimStart(TRUE, services, k)
    \/ SimStep
    \/ SimSave

EpisodeSpec == InitEpisode /\ [][NextEpisode]_vars

(***************************************************************************)
(* Properties.                                                             *)
(***************************************************************************)
\* the order of the levels as the specification states it
Rank == [none |-> 0, public |-> 1, internal |-> 2, admin |-> 3]

\* a transition that runs EnvironmentState.reset: it starts a new episode
StartsEpisode ==
    \/ ResetRequest
    \/ \E services \in ScanResults, k \in 0..(MaxSteps - 1) : SimStart(TRUE, services, k)
    \/ \E k \in 0..(MaxSteps - 1) : SimStart(FALSE, <<>>, k)

\* a transition in which execute_attack is called once
ExecutesAttack ==
    \/ \E a \in AttackAction : AttackRequest(a)
    \/ SimStep

Blocked(state) == ATTACKER_IP \in state.blocked_ips

\* C1: within an episode the access level never decreases: every transition that
\* is not a reset leaves the level at or above the level before it.
C1_MonotonicEscalation ==
    [][ ~StartsEpisode =>
          Rank[environment'.current_access_level] >= Rank[environment.current_access_level] ]_vars

\* C1 witness: a second attack has succeeded in the episode and the level is "admin"
C1_Witness ==
    /\ result # <<>>
    /\ result[1].success
    /\ environment.current_access_level = "admin"
    /\ Cardinality(environment.visited_components) >= 2

\* C2: once the attacker identifier is in the blocked set, every execute_attack
\* returns success = FALSE and blocked = TRUE, and the identifier stays blocked
\* until a reset.
C2_BlockingIsSticky ==
    [][ Blocked(environment) =>
          /\ ExecutesAttack =>
                /\ result' # <<>>
                /\ ~result'[1].success
                /\ result'[1].blocked
          /\ ~StartsEpisode => Blocked(environment') ]_vars

\* C2 witness: an execute_attack was answered from the blocked set
C2_Witness ==
    /\ Blocked(environment)
    /\ result # <<>>
    /\ result[1].message = <<"IP address is blocked">>

\* C3 (as claimed): every action available at a lower level is available at the
\* current level.
C3_AvailableActionsCumulative ==
    \A below \in AccessLevel :
        Rank[below] <= Rank[environment.current_access_level] =>
            get_available_actions(below) \subseteq
                get_available_actions(environment.current_access_level)

\* the record the latest simulation step appended to the attack path
LastStep(path) == path[Len(path)]

\* C4 (as claimed): a simulation step that succeeds and raises the level from rank
\* a to rank b > a computes the reward 5 + 10 * (b - a) + 2 for the component,
\* + 3 when a vulnerability is found, + 100 + 2 when the action is the hint.
C4_EscalationRewardInSimulation ==
    [][ ( /\ SimStep
          /\ result'[1].success
          /\ Rank[environment'.current_access_level] > Rank[environment.current_access_level] )
        => reward'[1] =
               5 + 10 * ( Rank[environment'.current_access_level]
                          - Rank[environment.current_access_level] )
               + 2
               + (IF result'[1].vulnerability_found # None THEN 3 ELSE 0)
               + (IF call'.action = environment.strategic_hint THEN 102 ELSE 0) ]_vars

\* C5: for a successful result whose action is the hint of the state,
\* calculate_reward returns 102 more than for the same result on the same state
\* without a hint, and leaves hint_followed and hint_success set.
C5_HintMassiveReward ==
    ( /\ reward # <<>>
      /\ call.result.success
      /\ call.state.strategic_hint # None
      /\ call.action = call.state.strategic_hint )
    => LET no_hint == [call.state EXCEPT !.strategic_hint = None, !.hint_available = 0,
                                         !.hint_service = None, !.hint_confidence = 0]
       IN  /\ reward[1] = calculate_reward(call.result, no_hint, call.action).reward + 102
           /\ environment.hint_followed
           /\ environment.hint_success

\* C5 witness: calculate_reward was applied to a success of the hinted action
C5_Witness ==
    /\ reward # <<>>
    /\ call.result.success
    /\ call.action = call.state.strategic_hint
    /\ ~call.state.hint_followed
    /\ call.result.vulnerability_found # None

\* the action the latest execute_attack was called with
ExecutedAction == call.action

\* C6: when the attacker is not blocked and the action is not applicable at the
\* current level, execute_attack returns success = FALSE, blocked = FALSE and the
\* current level, changes nothing of the environment (calculate_reward alone may
\* record a followed hint afterwards), and the reward of the simulation step is
\* -2 when the state has no hint.
C6_InapplicableIsOrdinaryFailure ==
    [][ ( /\ ExecutesAttack
          /\ ~Blocked(environment)
          /\ ~ _is_action_applicable(call'.action, environment.current_access_level) )
        => /\ result' # <<>>
           /\ ~result'[1].success
           /\ ~result'[1].blocked
           /\ result'[1].new_access_level = environment.current_access_level
           /\ result'[1].discovered_component = None
           /\ result'[1].vulnerability_found = None
           /\ environment' = [environment EXCEPT
                                 !.hint_followed = environment'.hint_followed,
                                 !.hint_success  = environment'.hint_success]
           /\ ~Blocked(environment')
           /\ (~SimStep => environment' = environment)
           /\ (SimStep /\ environment.strategic_hint = None => reward' = <<-2>>) ]_vars

\* C6 witness: a simulation step ran an action that is not applicable at the level,
\* with no hint in the state, and the attacker is not blocked
C6_Witness ==
    /\ call.op = "execute_attack"
    /\ result # <<>>
    /\ ~ _is_action_applicable(ExecutedAction, environment.current_access_level)
    /\ result[1].message = NotApplicableMessage(ExecutedAction, environment.current_access_level)
    /\ ~Blocked(environment)
    /\ environment.strategic_hint = None
    /\ reward = <<-2>>

\* C7: for a failed result the reward is -2, -1 more when a hint is present and
\* the action is not the hint, +2 when the action is the hint (hint_followed is
\* then set and hint_success cleared), and -10 more when the result is blocked.
C7_FailureTermsAdditive ==
    ( /\ reward # <<>>
      /\ ~call.result.success )
    => LET hint    == call.state.strategic_hint
           matches == hint # None /\ call.action = hint
       IN  /\ reward[1] = (0 - 2)
                          - (IF call.state.hint_available = 1 /\ ~matches THEN 1 ELSE 0)
                          + (IF matches THEN 2 ELSE 0)
                          - (IF call.result.blocked THEN 10 ELSE 0)
           /\ matches => (environment.hint_followed /\ ~environment.hint_success)
           /\ ~matches => ( /\ environment.hint_followed = call.state.hint_followed
                            /\ environment.hint_success = call.state.hint_success )

\* C7 witness: calculate_reward was applied to a blocked failure of the hinted action
\* on a state that held an earlier hinted success
C7_Witness ==
    /\ reward # <<>>
    /\ ~call.result.success
    /\ call.result.blocked
    /\ call.action = call.state.strategic_hint
    /\ call.state.hint_success
    /\ reward = <<-10>>

\* two states agree on the access level and on the hint fields
SameLevelAndHint(s, t) ==
    /\ s.current_access_level = t.current_access_level
    /\ s.strategic_hint = t.strategic_hint
    /\ s.hint_available = t.hint_available

\* C8: the reward of a call equals the reward of the same result and action on
\* every state that agrees with the call's state on the access level and the hint
\* fields, whatever hint_followed and hint_success hold and whichever calls came
\* before.
C8_RewardDeterminism ==
    reward # <<>> =>
        \A other \in RewardStates :
            SameLevelAndHint(other, call.state) =>
                calculate_reward(call.result, other, call.action).reward = reward[1]

\* C8 witness: the second call in a row, on the state the first call marked as
\* having followed the hint
C8_Witness ==
    /\ reward # <<>>
    /\ call.calls = 2
    /\ ~call.state.hint_followed
    /\ environment.hint_followed
    /\ reward = <<109>>

\* the entries of a path that recorded the level "admin" are the last ones
AdminOnlyLast(path) ==
    \A k \in 1..Len(path) : path[k].access_level = "admin" => k = Len(path)

\* C9: the loop of run_simulation never starts a pass at the level "admin", and in
\* the attack path, while it is built and once it is stored, only the last entry
\* records the level "admin".
C9_StopsAtAdmin ==
    /\ pc = "loop" => environment.current_access_level # "admin"
    /\ AdminOnlyLast(sim.attack_path)
    /\ \A k \in 1..Len(storage.attack_paths) :
           AdminOnlyLast(storage.attack_paths[k].attack_path)

\* C9 witness: the loop was left at "admin" with passes of the range remaining
C9_Witness ==
    /\ pc = "save"
    /\ environment.current_access_level = "admin"
    /\ Len(sim.attack_path) >= 1
    /\ Len(sim.attack_path) < sim.iterations
    /\ LastStep(sim.attack_path).access_level = "admin"

\* run_simulation under a scheduler that keeps running the handler it started
FairSpec == Spec /\ WF_vars(SimStep) /\ WF_vars(SimSave)

\* C10: a started run_simulation executes at most `iterations` steps, is left only
\* through the save, which appends exactly one record holding the level of the
\* environment and the number of executed steps; nothing else writes the table;
\* and every started run_simulation returns.
C10_SimulationTerminates ==
    /\ [](Len(sim.attack_path) <= sim.iterations /\ sim.i = Len(sim.attack_path))
    /\ [][ SimSave =>
             /\ Len(storage'.attack_paths) = Len(storage.attack_paths) + 1
             /\ LastStep(storage'.attack_paths).final_access_level
                    = environment.current_access_level
             /\ LastStep(storage'.attack_paths).total_iterations = Len(sim.attack_path)
             /\ LastStep(storage'.attack_paths).attack_path = sim.attack_path
             /\ \A k \in 1..Len(storage.attack_paths) :
                    storage'.attack_paths[k] = storage.attack_paths[k] ]_vars
    /\ [][ ~SimSave => storage' = storage ]_vars
    /\ [][ (pc # "idle" /\ pc' = "idle") => SimSave ]_vars
    /\ (pc # "idle") ~> (pc = "idle")

\* C10 witness: two simulations have returned, one that executed no step and one
\* that used its whole range, and each left one record
C10_Witness ==
    /\ pc = "idle"
    /\ Len(storage.attack_paths) = 2
    /\ \E k \in 1..2 : storage.attack_paths[k].total_iterations = 0
    /\ \E k \in 1..2 : /\ storage.attack_paths[k].total_iterations = 1
                       /\ storage.attack_paths[k].final_access_level = "public"

QOf(agent) == get_q_value(agent.q_table.table, call.state, call.action)

\* the distance of a value from the reward, in thousandths
Distance(q) == IF q >= call.r * ONE THEN q - call.r * ONE ELSE call.r * ONE - q

\* the next state of the repeated update has no stored value
NextStateUnseen(agent) ==
    call.next_state \notin DOMAIN agent.q_table.table
    \/ DOMAIN agent.q_table.table[call.next_state] = {}

\* an update never moves the value to the other side of the reward
NeverCrosses(q, q2) ==
    /\ q >= call.r * ONE => q2 >= call.r * ONE
    /\ q <= call.r * ONE => q2 <= call.r * ONE

Resolution(agent) == (ONE \div 2) \div agent.q_table.learning_rate

MaxOverAllActions(table, next_state) ==
    max_of({ get_q_value(table, next_state, b) : b \in AttackAction })

\* C13 (as claimed): the update of a simulation step uses, as its bootstrap term,
\* the maximum over all actions a' of Q(next_state_key, a'), an unseen pair being 0.
C13_BootstrapCountsUnseenAsZero ==
    [][ SimStep =>
          LET table     == ai_agent.q_table.table
              state_key == environment.current_access_level
              current_q == get_q_value(table, state_key, call'.action)
              target    == reward'[1] * ONE
                           + fmul(ai_agent.q_table.discount_factor,
                                  MaxOverAllActions(table, result'[1].new_access_level))
          IN  get_q_value(ai_agent'.q_table.table, state_key, call'.action)
                  = current_q + fmul(ai_agent.q_table.learning_rate, target - current_q) ]_vars

\* a transition that is a get_strategic_hints call
IsLookup == \E q \in LibQueries, tool \in ToolOutcomes : Lookup(q[1], q[2], tool)

C15_ToolFailureFallsBack ==
    ( /\ call.op = "get_strategic_hints"
      /\ call.queried
      /\ exploit_librarian.searchsploit_available
      /\ ~exploit_librarian.demo_mode
      /\ call.tool \in {"timeout", "missing", "nonzero_exit", "unparsable", "os_error"} )
    => ( /\ ~call.raised
         /\ call.hints = _query_mock_db(call.service, call.version) )

\* the fields reset clears before the hint query, at their initial values
NonHintFieldsInitial(state) ==
    /\ state.current_access_level = "none"
    /\ state.visited_components = {}
    /\ state.blocked_ips = {}
    /\ state.discovered_services = <<>>
    /\ state.discovered_vulnerabilities = <<>>
    /\ state.iteration_count = 0
    /\ state.hint_followed = FALSE
    /\ state.hint_success = FALSE

\* the hint fields at their initial values
HintFieldsInitial(state) ==
    /\ state.strategic_hint = None
    /\ state.hint_available = 0
    /\ state.hint_service = None
    /\ state.hint_confidence = 0

\* C16: after a reset with a target service whose lookup returned, the hint
\* fields hold a hint of the highest confidence among the lookup's hints, or no
\* hint when the lookup is empty; for "Apache" answered by the static catalog the
\* hint is path_traversal_attempt with confidence 0.95.
C16_ResetSeedsBestHint ==
    ( /\ call.op = "reset"
      /\ call.target # None
      /\ ~call.lookup_raised )
    => /\ call.hints = <<>> => HintFieldsInitial(environment)
       /\ call.hints # <<>> =>
             /\ environment.hint_available = 1
             /\ environment.hint_service = call.target
             /\ \E k \in DOMAIN call.hints :
                   /\ \A j \in DOMAIN call.hints :
                         call.hints[j].confidence <= call.hints[k].confidence
                   /\ environment.strategic_hint = call.hints[k].action
                   /\ environment.hint_confidence = call.hints[k].confidence
       /\ (call.target = "Apache" /\ call.hints = _query_mock_db("Apache", None)) =>
             /\ environment.strategic_hint = "path_traversal_attempt"
             /\ environment.hint_confidence = 950

\* C16 witness: a reset for "PHP", whose hints differ in confidence, on an
\* environment that attacks had changed
C16_Witness ==
    /\ call.op = "reset"
    /\ call.target = "PHP"
    /\ call.before.current_access_level = "public"
    /\ Len(call.hints) = 2
    /\ environment.strategic_hint = "deserialization_attempt"
    /\ environment.hint_confidence = 850

\* C18: every reset leaves the access level, the visited, blocked and discovered
\* collections, the iteration count and the two hint-follow flags at their
\* initial values, and without a target service the hint fields as well.
C18_ResetRestoresInitialValues ==
    call.op = "reset" =>
        /\ NonHintFieldsInitial(environment)
        /\ call.target = None => ( /\ HintFieldsInitial(environment)
                                   /\ environment = InitialEnvironment )

\* C18 witness: a reset without a target service, applied to the environment in
\* which no field had its default
C18_Witness ==
    /\ call.op = "reset"
    /\ call.before = UsedEnvironment
    /\ call.target = None
    /\ environment = InitialEnvironment

\* C19: when the lookup raises during a reset, the reset still returns, the
\* access level is "none" and hint_available is 0.
C19_FailingLookupIsNonFatal ==
    ( /\ call.op = "reset"
      /\ call.lookup_raised )
    => /\ ~call.raised
       /\ environment.current_access_level = "none"
       /\ environment.hint_available = 0
       /\ environment.strategic_hint = None

\* C19 witness: the lookup of a reset raised, on an environment that held a hint
C19_Witness ==
    /\ call.op = "reset"
    /\ call.lookup_raised
    /\ call.before.hint_available = 1
    /\ call.target = "Redis"
    /\ exploit_librarian.searchsploit_available
    /\ exploit_librarian.hint_cache = <<>>

\* C17 (as claimed): during a simulation whose scan discovered a service, the
\* active hint is one of the hints the catalog gives for the name and the version
\* of that service: an entry whose version pattern rejects the version is not it.
C17_HintSeededWithVersion ==
    ( /\ pc # "idle"
      /\ sim.target_service # None
      /\ environment.strategic_hint # None )
    => \E k \in DOMAIN _query_mock_db(sim.target_service, sim.service_version) :
          _query_mock_db(sim.target_service, sim.service_version)[k].action
              = environment.strategic_hint

\* a transition that is a direct choose_action call
IsChooseCall ==
    \E available_actions \in {{}, get_available_actions(environment.current_access_level)},
       u_hint \in Samples, u_eps \in Samples :
       ChooseCall(available_actions, u_hint, u_eps)

\* the environment, the Q-table, the librarian and the path store are as before
NothingMutated ==
    /\ environment' = environment
    /\ ai_agent' = ai_agent
    /\ storage' = storage
    /\ exploit_librarian' = exploit_librarian

\* C20: choose_action with an empty list raises, an attack request whose action
\* is no action identifier is answered with status 400, and neither changes the
\* environment, the Q-table or the path store.
C20_InvalidInputRejected ==
    /\ [][ (IsChooseCall /\ call'.available = {}) =>
             (call'.raised /\ NothingMutated) ]_vars
    /\ [][ (\E a \in AttackInputs \ AttackAction : AttackRequest(a)) =>
             (response'.status = 400 /\ result' = <<>> /\ NothingMutated) ]_vars

\* C20 witness: choose_action raised on the empty list after a simulation had
\* raised the level and filled the Q-table
C20_Witness ==
    /\ call.op = "choose_action"
    /\ call.raised
    /\ environment.current_access_level # "none"
    /\ ai_agent.q_table.table # <<>>
    /\ Len(storage.attack_paths) = 1


\* the actions of the list whose Q-value is maximal among the list's
MaximalActions(agent, state, available_actions) ==
    { a \in Range(available_actions) :
        \A b \in Range(available_actions) :
            get_q_value(agent.q_table.table, state, b)
                <= get_q_value(agent.q_table.table, state, a) }

\* C21: choose_action returns a member of the list it is given; in the exploit
\* branch the action has a maximal Q-value among the list's, and every action of
\* the list that ties for the maximum can be the one returned.
C21_ChooseActionTieBreaking ==
    call.op = "choose_action" =>
       /\ call.chosen \in Range(call.available)
       /\ call.branch = "exploit" =>
             /\ call.chosen \in MaximalActions(ai_agent, environment.current_access_level,
                                               call.available)
             /\ call.possible = MaximalActions(ai_agent, environment.current_access_level,
                                               call.available)


\* max(min_epsilon, epsilon * epsilon_decay), in units of ONE * ONE so that the
\* product is exact
DecayedEpsilon(agent) ==
    Max(agent.min_epsilon * ONE, agent.epsilon * agent.epsilon_decay)

\* C22: the step that completes run_simulation leaves the agent's epsilon at
\* max(min_epsilon, epsilon_before * epsilon_decay), where epsilon_before is the
\* epsilon of the run (no step of the loop assigns it).
C22_EpsilonDecaysAfterEpisode ==
    [][ SimSave => ai_agent'.epsilon * ONE = DecayedEpsilon(ai_agent) ]_vars


\* the weights of the final level as the specification states them
Weight == [none |-> 0, public |-> 10, internal |-> 30, admin |-> 100]

Successes(row) == Cardinality({i \in DOMAIN row.attack_path : row.attack_path[i].success})

Failures(row) == Len(row.attack_path) - Successes(row)

\* Len(attack_path) times the score the rule gives a row, in thousandths:
\* weight * (1 + successes/total) + 5 * vulnerabilities - 0.5 * failures
ScoreRuleTimesTotal(row) ==
    Weight[row.final_access_level] * ONE * (Len(row.attack_path) + Successes(row))
        + (5 * Len(row.discovered_vulnerabilities) * ONE - Failures(row) * (ONE \div 2))
              * Len(row.attack_path)

\* the row's score is the rule's value, cut to the thousandth below it when the
\* ratio successes/total has no finite representation
ScoreFollowsRule(row) ==
    IF Len(row.attack_path) = 0
    THEN row.score = Weight[row.final_access_level] * ONE
                         + 5 * Len(row.discovered_vulnerabilities) * ONE
    ELSE /\ row.score * Len(row.attack_path) <= ScoreRuleTimesTotal(row)
         /\ ScoreRuleTimesTotal(row) < (row.score + 1) * Len(row.attack_path)

IsAdminExample(row) ==
    /\ row.final_access_level = "admin"
    /\ Successes(row) = 8
    /\ Failures(row) = 2
    /\ Len(row.discovered_vulnerabilities) = 3

\* C23: every path saved without a score is stored with the score
\* weight(final_level) * (1 + successes/total) + 5 * vulnerabilities - 0.5 * failures,
\* the ratio factor left out for an empty path; for ADMIN with 8 successes,
\* 2 failures and 3 vulnerabilities the score is 194.
C23_DerivedPathScore ==
    \A i \in DOMAIN storage.attack_paths :
       LET row == storage.attack_paths[i]
       IN  /\ row.final_access_level \in DOMAIN Weight => ScoreFollowsRule(row)
           /\ IsAdminExample(row) => row.score = 194 * ONE

\* C23 witness: the path of the example is stored after a path whose ratio is 1/3
C23_Witness ==
    /\ Len(storage.attack_paths) = 2
    /\ storage.attack_paths[1].final_access_level = "public"
    /\ Successes(storage.attack_paths[1]) = 1
    /\ Failures(storage.attack_paths[1]) = 2
    /\ storage.attack_paths[1].score = 12333
    /\ IsAdminExample(storage.attack_paths[2])
    /\ storage.attack_paths[2].score = 194000


\* C24: a best-path request on an empty store is answered "not found" (404);
\* on a store holding paths it returns a stored record whose score is at least
\* the score of every stored record.
C24_BestPathIsHighestScore ==
    [][ BestPathRequest =>
          IF storage.attack_paths = <<>>
          THEN response'.status = 404
          ELSE /\ response'.status = 200
               /\ response'.best_path \in Range(storage.attack_paths)
               /\ \A i \in DOMAIN storage.attack_paths :
                     storage.attack_paths[i].score <= response'.best_path.score ]_vars

\* C24 witness: the request returned the second of two stored paths, the first
\* having the lower score
C24_Witness ==
    /\ response.status = 200
    /\ Len(storage.attack_paths) = 2
    /\ response.best_path = storage.attack_paths[2]
    /\ storage.attack_paths[1].score < storage.attack_paths[2].score


\* the tallies readers see for a path and an action
TalliesOf(path_id, action) ==
    { k \in DOMAIN storage.path_statistics :
        /\ storage.path_statistics[k].path_id = path_id
        /\ storage.path_statistics[k].action_type = action }

StepsOf(row, action, ok) ==
    Cardinality({ j \in DOMAIN row.attack_path :
                    row.attack_path[j].action = action /\ row.attack_path[j].success = ok })

\* a visible path has, for each action it uses, one tally row with its counts
PathHasItsTallies(row) ==
    \A j \in DOMAIN row.attack_path :
       /\ Cardinality(TalliesOf(row.id, row.attack_path[j].action)) = 1
       /\ \A k \in TalliesOf(row.id, row.attack_path[j].action) :
             /\ storage.path_statistics[k].success_count
                    = StepsOf(row, row.attack_path[j].action, TRUE)
             /\ storage.path_statistics[k].failure_count
                    = StepsOf(row, row.attack_path[j].action, FALSE)

\* a visible tally belongs to a visible path that uses its action
TallyHasItsPath(stat) ==
    \E i \in DOMAIN storage.attack_paths :
       /\ storage.attack_paths[i].id = stat.path_id
       /\ \E j \in DOMAIN storage.attack_paths[i].attack_path :
             storage.attack_paths[i].attack_path[j].action = stat.action_type

\* C25: in every state of the store that readers can see, also after a save
\* failed between its two INSERTs, every path record has all of its action
\* tallies and every tally has its path record.
C25_PathWritesAreAtomic ==
    /\ \A i \in DOMAIN storage.attack_paths : PathHasItsTallies(storage.attack_paths[i])
    /\ \A k \in DOMAIN storage.path_statistics : TallyHasItsPath(storage.path_statistics[k])

\* C25 witness: after one committed save, a second save has inserted its path
\* record and failed before inserting the tallies
C25_Witness ==
    /\ call.op = "save_attack_path"
    /\ call.at = "raised"
    /\ Len(call.txn.attack_paths) = 1
    /\ call.txn.attack_paths[1].attack_path # <<>>
    /\ call.txn.path_statistics = <<>>
    /\ Len(storage.attack_paths) = 1
    /\ storage.path_statistics # <<>>


\* the fields of the environment execute_attack can assign are as before
AttackFieldsUnchanged ==
    /\ environment'.current_access_level = environment.current_access_level
    /\ environment'.visited_components = environment.visited_components
    /\ environment'.discovered_vulnerabilities = environment.discovered_vulnerabilities
    /\ environment'.blocked_ips = environment.blocked_ips

\* C26: when the attacker is already blocked, execute_attack returns the blocked
\* failure for every action, applicable at the level or not, and leaves the
\* access level, the visited components, the discovered vulnerabilities and the
\* blocked set unchanged.
C26_BlockedFailsFirst ==
    [][ (ExecutesAttack /\ Blocked(environment)) =>
          /\ result' # <<>>
          /\ result'[1] = AttackResult(FALSE, environment.current_access_level,
                                       <<"IP address is blocked">>, None, None, TRUE)
          /\ AttackFieldsUnchanged ]_vars

\* C26 witness: a blocked attacker, with components visited before, asked for an
\* action that is not applicable at the level and got the blocked failure
C26_Witness ==
    /\ call.op = "execute_attack"
    /\ Blocked(environment)
    /\ result # <<>>
    /\ result[1].message = <<"IP address is blocked">>
    /\ ~ _is_action_applicable(call.action, environment.current_access_level)
    /\ environment.visited_components # {}

\* C27: a failed execute_attack leaves the access level, the visited components
\* and the discovered vulnerabilities unchanged and its result carries no
\* component and no vulnerability; the blocked set changes only by gaining the
\* attacker when detection triggers, and a request that runs execute_attack
\* alone changes nothing else.
C27_FailureChangesNothingButBlock ==
    [][ (ExecutesAttack /\ result' # <<>> /\ ~result'[1].success) =>
          /\ environment'.current_access_level = environment.current_access_level
          /\ environment'.visited_components = environment.visited_components
          /\ environment'.discovered_vulnerabilities = environment.discovered_vulnerabilities
          /\ result'[1].new_access_level = environment.current_access_level
          /\ result'[1].discovered_component = None
          /\ result'[1].vulnerability_found = None
          /\ \/ environment'.blocked_ips = environment.blocked_ips
             \/ /\ environment'.blocked_ips = environment.blocked_ips \cup {ATTACKER_IP}
                /\ result'[1].message = <<"Attack detected and blocked by IDS">>
                /\ result'[1].blocked
          /\ ~SimStep =>
                environment' = [environment EXCEPT !.blocked_ips = environment'.blocked_ips] ]_vars

\* C27 witness: detection failed an attack at a raised level, after a component
\* and a vulnerability had been discovered
C27_Witness ==
    /\ call.op = "execute_attack"
    /\ result # <<>>
    /\ result[1].message = <<"Attack detected and blocked by IDS">>
    /\ Blocked(environment)
    /\ environment.current_access_level # "none"
    /\ environment.visited_components # {}

\* the actions that map to a vulnerability class
KnownVulnerabilityActions ==
    { "sql_injection_attempt", "xss_attempt", "path_traversal_attempt",
      "command_injection_attempt" }

\* C28: after every execute_attack the result's new_access_level is the
\* environment's level; on success the component of the result is added to the
\* visited set, and a vulnerability name is appended to
\* discovered_vulnerabilities and carried in the result exactly when the action
\* maps to a vulnerability class.
C28_ResultMatchesEnvironment ==
    [][ (ExecutesAttack /\ result' # <<>>) =>
          /\ result'[1].new_access_level = environment'.current_access_level
          /\ result'[1].success =>
                /\ result'[1].discovered_component # None
                /\ environment'.visited_components
                       = environment.visited_components \cup {result'[1].discovered_component}
                /\ IF call'.action \in KnownVulnerabilityActions
                   THEN /\ result'[1].vulnerability_found # None
                        /\ environment'.discovered_vulnerabilities
                               = Append(environment.discovered_vulnerabilities,
                                        result'[1].vulnerability_found)
                   ELSE /\ result'[1].vulnerability_found = None
                        /\ environment'.discovered_vulnerabilities
                               = environment.discovered_vulnerabilities ]_vars

\* C28 witness: a successful attack found a vulnerability and a second component
C28_Witness ==
    /\ call.op = "execute_attack"
    /\ result # <<>>
    /\ result[1].success
    /\ result[1].vulnerability_found # None
    /\ Cardinality(environment.visited_components) = 2
    /\ environment.discovered_vulnerabilities # <<>>
    /\ result[1].new_access_level = environment.current_access_level


\* C29: no execute_attack raises the access level by more than one rank, so
\* ADMIN is never reached from NONE or PUBLIC in one step.
C29_OneRankPerStep ==
    [][ ExecutesAttack =>
          Rank[environment'.current_access_level]
              <= Rank[environment.current_access_level] + 1 ]_vars

\* C30: an attack request with an action identifier executes the action, computes
\* the reward, updates the Q-table, adds one to iteration_count and returns the
\* result and the reward (status 200).
C30_AttackRequestCompletes ==
    [][ (\E a \in AttackAction : AttackRequest(a)) =>
          /\ response'.status = 200
          /\ result' # <<>>
          /\ reward' # <<>>
          /\ ai_agent'.q_table.table # ai_agent.q_table.table
          /\ environment'.iteration_count = environment.iteration_count + 1 ]_vars


\* C31: in every simulation step, each action get_available_actions offers at
\* the current level is applicable at that level, and the action chosen is not
\* rejected by execute_attack as not applicable.
C31_OfferedActionsAreApplicable ==
    [][ SimStep =>
          /\ \A a \in get_available_actions(environment.current_access_level) :
                _is_action_applicable(a, environment.current_access_level)
          /\ result'[1].message
                 # NotApplicableMessage(call'.action, environment.current_access_level) ]_vars


\* C32: whenever a hint is present (hint_available = 1) the active hint is an
\* identifier of the AttackAction catalog and get_available_actions offers it
\* at some access level.
C32_HintIsAnAttackAction ==
    environment.hint_available = 1 =>
       /\ environment.strategic_hint \in AttackAction
       /\ \E level \in AccessLevel :
             environment.strategic_hint \in get_available_actions(level)


\* C33: in every reachable state hint_available = 1 exactly when strategic_hint
\* is set.
C33_HintFlagMatchesHint ==
    (environment.hint_available = 1) <=> (environment.strategic_hint # None)

\* C33 witness: a simulation seeded with a hint has run a step, and the hint and
\* its flag are both still set
C33_Witness ==
    /\ sim.attack_path # <<>>
    /\ sim.target_service # None
    /\ environment.hint_available = 1
    /\ environment.strategic_hint # None


\* the steps of a path whose action was the active hint
HintSteps(path) == { i \in DOMAIN path : path[i].hint_matched }

\* some step of the path followed the hint and succeeded
SomeHintStepSucceeded(path) == \E i \in HintSteps(path) : path[i].success

\* the last step of the path that followed the hint succeeded
LastHintStepSucceeded(path) ==
    \E i \in HintSteps(path) :
       /\ path[i].success
       /\ \A j \in HintSteps(path) : j <= i

\* C34 (as claimed): within an episode hint_success, once true, stays true until
\* the next reset, and the hint_success a simulation returns is true exactly
\* when some step of the episode followed the hint and succeeded.
C34_HintSuccessIsSticky ==
    /\ [][ (environment.hint_success /\ ~StartsEpisode) => environment'.hint_success ]_vars
    /\ [][ SimSave =>
             (response'.hint_success <=> SomeHintStepSucceeded(sim.attack_path)) ]_vars

\* C34 (amended): hint_success is the outcome of the latest step whose action
\* was the active hint: such a step sets it to the step's success, any other
\* step leaves it, and the hint_success a simulation returns is true exactly
\* when the last step of the episode that followed the hint succeeded.
C34_HintSuccessIsLatestOutcome ==
    /\ [][ SimStep =>
             environment'.hint_success
                 = IF check_hint_match(environment, call'.action)
                   THEN result'[1].success
                   ELSE environment.hint_success ]_vars
    /\ [][ SimSave =>
             (response'.hint_success <=> LastHintStepSucceeded(sim.attack_path)) ]_vars

\* C34 witness: a simulation returned hint_success = FALSE although an earlier
\* step had followed the hint and succeeded
C34_Witness ==
    /\ response.status = 200
    /\ ~response.hint_success
    /\ SomeHintStepSucceeded(response.attack_path)

\* the hints an uncached lookup of the pair can return: what the underlying
\* query gives for some outcome of the external tool, if it is run at all
UncachedAnswers(librarian, service_name, service_version) ==
    { query_hints(librarian, service_name, service_version, tool).hints :
          tool \in { t \in ToolOutcomes :
                       ~query_hints(librarian, service_name, service_version, t).raised } }

\* C35: a get_strategic_hints(s, v) call that returns gives hints an uncached
\* lookup of (s, v) returns, whether v is absent or a literal version string.
C35_CacheSeparatesVersions ==
    (call.op = "get_strategic_hints" /\ ~call.raised)
    => call.hints \in UncachedAnswers(exploit_librarian, call.service, call.version)

\* C36: while a simulation started with a target host runs, and when its loop
\* has ended, discovered_services holds the service names recon supplied, among
\* them the name the episode's hint was asked for.
C36_ReconServicesSurviveReset ==
    (pc \in {"loop", "save"} /\ sim.target_service # None)
    => sim.target_service \in Range(environment.discovered_services)

RECURSIVE TallySum(_, _, _)
\* over the first k tally rows, the sum of the success counts (ok) or of the
\* failure counts (~ok) of the rows of one path
TallySum(k, path_id, ok) ==
    IF k = 0 THEN 0
    ELSE TallySum(k - 1, path_id, ok)
         + ( IF storage.path_statistics[k].path_id # path_id THEN 0
             ELSE IF ok THEN storage.path_statistics[k].success_count
             ELSE storage.path_statistics[k].failure_count )

\* one stored path record agrees with its step trace and with its tallies
RecordIsConsistent(row) ==
    LET tallies == Len(storage.path_statistics)
    IN  /\ row.successful_attacks + row.failed_attacks = row.total_iterations
        /\ row.total_iterations = Len(row.attack_path)
        /\ TallySum(tallies, row.id, TRUE) + TallySum(tallies, row.id, FALSE)
               = row.total_iterations
        /\ TallySum(tallies, row.id, TRUE) = row.successful_attacks

\* C38: every stored path record has successful_attacks + failed_attacks =
\* total_iterations = the length of its stored step trace, and its per-action
\* tallies sum to total_iterations, the success tallies to successful_attacks.
C38_StoredRecordsAreConsistent ==
    \A i \in DOMAIN storage.attack_paths : RecordIsConsistent(storage.attack_paths[i])

\* C38 witness: two committed records, the second of three steps over two
\* actions, one of the actions used once with success and once without
C38_Witness ==
    /\ Len(storage.attack_paths) = 2
    /\ storage.attack_paths[2].attack_path = path_of(1, 2)
    /\ storage.attack_paths[2].successful_attacks = 1
    /\ storage.attack_paths[2].failed_attacks = 2
    /\ TallySum(Len(storage.path_statistics), 2, FALSE) = 2
    /\ \E k \in DOMAIN storage.path_statistics :
          /\ storage.path_statistics[k].path_id = 2
          /\ storage.path_statistics[k].success_count = 1
          /\ storage.path_statistics[k].failure_count = 1

====
